---- MODULE Spec2Model ----
(***************************************************************************)
(* Model of the Vello renderer of Slint:                                   *)
(*   internal/renderers/vello/itemrenderer.rs  (VelloItemRenderer)         *)
(*   internal/renderers/vello/lib.rs           (VelloRenderer)             *)
(*   internal/renderers/vello/wgpu.rs          (WgpuBackend)               *)
(*                                                                         *)
(* Two specifications share the variables:                                 *)
(*   SpecItem  one item renderer during the item-tree walk of a frame; an  *)
(*             action per ItemRenderer method;                             *)
(*   Spec      the renderer and its backend over several frames; an action *)
(*             per public method, render() being one atomic action whose   *)
(*             walk applies a sequence of ItemRenderer calls.              *)
(*                                                                         *)
(* f32/f64 values are modelled by integers (lengths, matrix entries) and   *)
(* by normalised fractions <<n, d>> (alpha); the inputs are chosen so that *)
(* every division the code performs is exact.                              *)
(***************************************************************************)
EXTENDS Integers, Sequences, FiniteSets, TLC

VARIABLES
    scene,                 \* VelloRenderer.scene: the list of draw operations
    state_stack,           \* VelloItemRenderer.state_stack (<<>>: no item renderer)
    scale_factor,          \* VelloItemRenderer.scale_factor (window scale factor)
    image_cache,           \* VelloRenderer.image_cache: key -> decoded blob
    next_blob,             \* identity of the next Arc<Vec<u8>> allocated
    rendering_notifier,    \* VelloRenderer.rendering_notifier (NoNotifier or a callback)
    rendering_first_time,  \* VelloRenderer.rendering_first_time
    rendering_metrics_collector, \* VelloRenderer.rendering_metrics_collector present
    maybe_window_adapter,  \* VelloRenderer.maybe_window_adapter
    window_size,           \* size of the window behind the adapter
    backend,               \* WgpuBackend: the nine RefCell<Option<..>> fields
    dropped,               \* the VelloRenderer was dropped
    panicked,              \* a call aborted with a panic
    render_calls,          \* number of render calls made so far
    frame_rendered,        \* history: a render call submitted a frame and returned Ok
    ops,                   \* number of ItemRenderer calls made in this walk
    log,                   \* history: what the last render call or drop did, in order
    notifications,         \* history: the setup and teardown notifications delivered
    last_op,               \* history: the last call and what it returned
    hist                   \* history: per state-stack frame, the calls since save_state

vars == <<scene, state_stack, scale_factor, image_cache, next_blob,
          rendering_notifier, rendering_first_time, rendering_metrics_collector,
          maybe_window_adapter, window_size, backend, dropped, panicked,
          render_calls, frame_rendered, ops, log, notifications, last_op, hist>>

item_vars == <<scene, state_stack, image_cache, next_blob, ops, last_op, hist>>

renderer_vars == <<rendering_notifier, rendering_first_time,
                   rendering_metrics_collector, maybe_window_adapter, window_size,
                   backend, dropped, panicked, render_calls, frame_rendered, log,
                   notifications>>

(***************************************************************************)
(* Bounds                                                                  *)
(***************************************************************************)
MaxOps == 4          \* ItemRenderer calls in one walk of SpecItem
MaxDepth == 3        \* frames on the state stack
MaxRenders == 2      \* render calls in one behaviour of Spec
MaxDraws == 2        \* drawing calls in one behaviour of SpecDraw

(***************************************************************************)
(* Small helpers                                                           *)
(***************************************************************************)
None == "None"

Min(a, b) == IF a <= b THEN a ELSE b

Max(a, b) == IF a >= b THEN a ELSE b

Abs(a) == IF a < 0 THEN -a ELSE a

Last(s) == s[Len(s)]

Front(s) == SubSeq(s, 1, Len(s) - 1)

RECURSIVE Gcd(_, _)
Gcd(a, b) == IF b = 0 THEN a ELSE Gcd(b, a % b)

\* a fraction n/d in lowest terms with d > 0
Frac(n, d) ==
    LET g == Gcd(Abs(n), Abs(d))
        s == IF d < 0 THEN -1 ELSE 1
    IN  IF n = 0 THEN <<0, 1>> ELSE <<(s * n) \div g, (s * d) \div g>>

FracMul(p, q) == Frac(p[1] * q[1], p[2] * q[2])

FracOne == <<1, 1>>

(***************************************************************************)
(* Geometry: euclid rectangles (logical), kurbo rectangles and affines     *)
(***************************************************************************)
LogicalRect(x, y, w, h) == [x |-> x, y |-> y, w |-> w, h |-> h]

\* LogicalRect::default()
LogicalRectDefault == LogicalRect(0, 0, 0, 0)

\* euclid Box2D::is_empty: !(max.x > min.x && max.y > min.y)
RectIsEmpty(r) == ~(r.w > 0 /\ r.h > 0)

\* euclid Rect::intersection: None when the intersection box is empty
RectIntersection(a, b) ==
    LET x0 == Max(a.x, b.x)
        y0 == Max(a.y, b.y)
        x1 == Min(a.x + a.w, b.x + b.w)
        y1 == Min(a.y + a.h, b.y + b.h)
    IN  IF x1 > x0 /\ y1 > y0
        THEN [some |-> TRUE, rect |-> LogicalRect(x0, y0, x1 - x0, y1 - y0)]
        ELSE [some |-> FALSE, rect |-> LogicalRectDefault]

\* kurbo::Rect::new(x0, y0, x1, y1)
KRect(x0, y0, x1, y1) == [x0 |-> x0, y0 |-> y0, x1 |-> x1, y1 |-> y1]

\* kurbo::Affine as its six coefficients
AffineIdentity == <<1, 0, 0, 1, 0, 0>>

AffineTranslate(x, y) == <<1, 0, 0, 1, x, y>>

AffineScale(x, y) == <<x, 0, 0, y, 0, 0>>

\* sine and cosine of the quarter turns, the only angles drawn as inputs
Sin(deg) == CASE deg % 360 = 0 -> 0 [] deg % 360 = 90 -> 1
              [] deg % 360 = 180 -> 0 [] deg % 360 = 270 -> -1

Cos(deg) == CASE deg % 360 = 0 -> 1 [] deg % 360 = 90 -> 0
              [] deg % 360 = 180 -> -1 [] deg % 360 = 270 -> 0

AffineRotate(deg) == <<Cos(deg), Sin(deg), -Sin(deg), Cos(deg), 0, 0>>

\* kurbo: impl Mul for Affine
AffineMul(s, o) ==
    << s[1] * o[1] + s[3] * o[2],
       s[2] * o[1] + s[4] * o[2],
       s[1] * o[3] + s[3] * o[4],
       s[2] * o[3] + s[4] * o[4],
       s[1] * o[5] + s[3] * o[6] + s[5],
       s[2] * o[5] + s[4] * o[6] + s[6] >>

(***************************************************************************)
(* Colours, brushes, paints and scene operations                           *)
(***************************************************************************)
\* i_slint_core::Color / peniko::Color::from_rgba8, as <<r, g, b, a>>
Rgba(r, g, b, a) == <<r, g, b, a>>

ColorTransparent == Rgba(0, 0, 0, 0)

\* i_slint_core::Brush
SolidColor(c) == [kind |-> "SolidColor", color |-> c, angle |-> 0, stops |-> <<>>]

LinearGradient(angle, stops) ==
    [kind |-> "LinearGradient", color |-> ColorTransparent, angle |-> angle, stops |-> stops]

RadialGradient(stops) ==
    [kind |-> "RadialGradient", color |-> ColorTransparent, angle |-> 0, stops |-> stops]

\* a Brush variant this renderer does not know (Brush is non-exhaustive)
OtherBrush == [kind |-> "Other", color |-> ColorTransparent, angle |-> 0, stops |-> <<>>]

\* Brush::is_transparent: a colour of alpha 0, a gradient of such stops
brush_is_transparent(brush) ==
    CASE brush.kind = "SolidColor" -> brush.color[4] = 0
      [] brush.kind \in {"LinearGradient", "RadialGradient"} ->
            \A i \in DOMAIN brush.stops : brush.stops[i].color[4] = 0
      [] OTHER -> FALSE

\* Brush::is_opaque: a colour of alpha 255, a gradient of such stops
brush_is_opaque(brush) ==
    CASE brush.kind = "SolidColor" -> brush.color[4] = 255
      [] brush.kind \in {"LinearGradient", "RadialGradient"} ->
            \A i \in DOMAIN brush.stops : brush.stops[i].color[4] = 255
      [] OTHER -> FALSE

\* peniko::Brush: Solid, Gradient or Image. geom holds what places a gradient:
\* the bounds and angle of a linear one, the bounds of a radial one.
Paint(kind, color, geom, stops, image, alpha) ==
    [kind |-> kind, color |-> color, geom |-> geom, stops |-> stops,
     image |-> image, alpha |-> alpha]

PaintSolid(c) == Paint("Solid", c, None, <<>>, None, None)

\* kurbo shapes: Rect and RoundedRect
ShapeRect(kr) == [kind |-> "Rect", rect |-> kr, radius |-> 0]

\* kurbo::Rect::abs: the same rectangle with its corners in order
RectAbs(kr) ==
    KRect(Min(kr.x0, kr.x1), Min(kr.y0, kr.y1), Max(kr.x0, kr.x1), Max(kr.y0, kr.y1))

\* a rounded rectangle that keeps the rectangle and the radius it is given
rounded_rect_as_given(kr, radius) ==
    [kind |-> "RoundedRect", rect |-> kr, radius |-> radius]

\* kurbo::RoundedRect::from_rect(rect, radius): the rectangle is put in order
\* and the radius is made non-negative and clamped to half its shorter side
\* (the sides drawn as inputs are even, so that the half is exact)
ShapeRoundedRect(kr, radius) ==
    LET rect == RectAbs(kr)
        shortest_side_length == Min(rect.x1 - rect.x0, rect.y1 - rect.y0)
    IN  [kind |-> "RoundedRect", rect |-> rect,
         radius |-> Min(Abs(radius), shortest_side_length \div 2)]

\* vello::Scene operations
SceneOp(op, alpha, transform, paint, shape) ==
    [op |-> op, alpha |-> alpha, transform |-> transform, paint |-> paint, shape |-> shape]

PushLayer(alpha, transform, shape) == SceneOp("push_layer", alpha, transform, None, shape)

PopLayer == SceneOp("pop_layer", None, None, None, None)

Fill(transform, paint, shape) == SceneOp("fill", None, transform, paint, shape)

\* Scene::stroke with a Stroke of the given width, centred on the shape's path
Stroke(width, transform, paint, shape) ==
    [op |-> "stroke", alpha |-> None, transform |-> transform, paint |-> paint,
     shape |-> shape, width |-> width]

\* Scene::draw_blurred_rounded_rect; std_dev is a fraction
BlurredRoundedRect(transform, rect, color, radius, std_dev) ==
    [op |-> "blurred_rounded_rect", alpha |-> None, transform |-> transform,
     paint |-> [kind |-> "Solid", color |-> color, geom |-> None, stops |-> <<>>,
                image |-> None, alpha |-> None],
     shape |-> [kind |-> "RoundedRect", rect |-> rect, radius |-> radius],
     std_dev |-> std_dev]

\* f32 as u8: truncates towards zero and saturates at 0 and 255
F32AsU8(f) == IF f[1] <= 0 THEN 0 ELSE Min(255, f[1] \div f[2])

apply_alpha(color, alpha) ==
    Rgba(color[1], color[2], color[3], F32AsU8(FracMul(<<color[4], 1>>, alpha)))

brush_to_peniko_brush_owned(brush, bounds) ==
    CASE brush.kind = "SolidColor" -> PaintSolid(brush.color)
      [] brush.kind = "LinearGradient" ->
            Paint("Gradient", ColorTransparent,
                  [pos |-> "Linear", bounds |-> bounds, angle |-> brush.angle],
                  brush.stops, None, None)
      [] brush.kind = "RadialGradient" ->
            Paint("Gradient", ColorTransparent,
                  [pos |-> "Radial", bounds |-> bounds, angle |-> 0],
                  brush.stops, None, None)
      [] OTHER -> PaintSolid(ColorTransparent)

(***************************************************************************)
(* VelloItemRenderer. An item renderer value r holds the scene it borrows, *)
(* its state stack, the image cache it borrows and its scale factor.       *)
(***************************************************************************)
RenderState(clip, transform, alpha, clip_layer_count) ==
    [clip |-> clip, transform |-> transform, alpha |-> alpha,
     clip_layer_count |-> clip_layer_count]

ItemRenderer(sc, stack, cache, nb, sf) ==
    [scene |-> sc, state_stack |-> stack, image_cache |-> cache, next_blob |-> nb,
     sf |-> sf]

\* an item renderer that starts every frame with an empty image cache
new_with_transform_fresh_cache(sc, sf, logical_size, cache, nb, initial_transform) ==
    ItemRenderer(sc,
                 << RenderState(LogicalRect(0, 0, logical_size[1], logical_size[2]),
                                initial_transform, FracOne, 0) >>,
                 <<>>, nb, sf)

new_with_transform(sc, sf, logical_size, cache, nb, initial_transform) ==
    ItemRenderer(sc,
                 << RenderState(LogicalRect(0, 0, logical_size[1], logical_size[2]),
                                initial_transform, FracOne, 0) >>,
                 cache, nb, sf)

current_state(r) == Last(r.state_stack)

\* current_state_mut() followed by an assignment to the state
set_current_state(r, st) ==
    [r EXCEPT !.state_stack = [@ EXCEPT ![Len(@)] = st]]

\* a conversion that takes logical lengths for physical ones
to_physical_unscaled(r, logical) == logical

to_physical(r, logical) == logical * r.sf

to_kurbo_rect(r, rect) ==
    KRect(to_physical(r, rect.x), to_physical(r, rect.y),
          to_physical(r, rect.x + rect.w), to_physical(r, rect.y + rect.h))

current_transform(r) == current_state(r).transform

scene_append(r, appended) == [r EXCEPT !.scene = @ \o appended]

draw_rectangle(r, brush, size) ==
    LET rect_geom == LogicalRect(0, 0, size[1], size[2])
        kurbo_rect == to_kurbo_rect(r, rect_geom)
        peniko_brush == brush_to_peniko_brush_owned(brush, kurbo_rect)
        with_alpha == IF peniko_brush.kind = "Solid"
                      THEN PaintSolid(apply_alpha(peniko_brush.color, current_state(r).alpha))
                      ELSE peniko_brush
    IN  scene_append(r, << Fill(current_transform(r), with_alpha, ShapeRect(kurbo_rect)) >>)

\* the match that multiplies the alpha into a solid brush and into no other
solid_with_alpha(r, peniko_brush) ==
    IF peniko_brush.kind = "Solid"
    THEN PaintSolid(apply_alpha(peniko_brush.color, current_state(r).alpha))
    ELSE peniko_brush

\* a border rectangle that is not moved inside the item's rectangle
border_rect_not_inset(size, border_width) == LogicalRect(0, 0, size[1], size[2])

\* the item's rectangle moved inside by the border width on every side
border_rect(size, border_width) ==
    LogicalRect(border_width, border_width,
                size[1] - 2 * border_width, size[2] - 2 * border_width)

\* item: the background, border_color, border_width and border_radius of a
\* RenderBorderRectangle. The sizes, widths and radii drawn as inputs are
\* even, so that their halves are exact.
draw_border_rectangle(r, item, size) ==
    IF size[1] <= 0 \/ size[2] <= 0 THEN r
    ELSE
    LET border_color == item.border_color
        border_width == IF brush_is_transparent(border_color) THEN 0
                        ELSE item.border_width
        opaque_border == brush_is_opaque(border_color)
        fill_radius == Min(Min(item.border_radius, size[1] \div 2), size[2] \div 2)
                       + border_width \div 2
        stroke_border_radius == IF fill_radius > border_width \div 2
                                THEN fill_radius - border_width \div 2
                                ELSE fill_radius
        inset_shape == ShapeRoundedRect(to_kurbo_rect(r, border_rect(size, border_width)),
                                        to_physical(r, stroke_border_radius))
        background_shape ==
            IF opaque_border THEN inset_shape
            ELSE ShapeRoundedRect(to_kurbo_rect(r, LogicalRect(0, 0, size[1], size[2])),
                                  to_physical(r, fill_radius))
        peniko_brush == solid_with_alpha(r,
                            brush_to_peniko_brush_owned(item.background,
                                                        background_shape.rect))
        background == << Fill(current_transform(r), peniko_brush, background_shape) >>
        border_peniko_brush == solid_with_alpha(r,
                                   brush_to_peniko_brush_owned(border_color,
                                                               inset_shape.rect))
        border == IF ~brush_is_transparent(border_color) /\ border_width > 0
                  THEN << Stroke(to_physical(r, border_width), current_transform(r),
                                 border_peniko_brush, inset_shape) >>
                  ELSE <<>>
    IN  scene_append(r, background \o border)

\* a shadow that is drawn even when nothing of it can be seen
draw_box_shadow_always(r, box_shadow, geometry) ==
    scene_append(r, << Fill(current_transform(r), PaintSolid(box_shadow.color),
                            ShapeRoundedRect(KRect(0, 0, 0, 0), 0)) >>)

\* box_shadow: the color, blur, offset_x, offset_y and border_radius of a
\* BoxShadow item; geometry: the width and height of item_rc.geometry()
draw_box_shadow(r, box_shadow, geometry) ==
    IF box_shadow.color[4] = 0
       \/ (box_shadow.blur = 0 /\ box_shadow.offset_x = 0 /\ box_shadow.offset_y = 0)
    THEN r
    ELSE
    LET shadow_color == apply_alpha(box_shadow.color, current_state(r).alpha)
        std_dev == Frac(to_physical(r, box_shadow.blur), 2)
        shadow_rect == KRect(to_physical(r, box_shadow.offset_x),
                             to_physical(r, box_shadow.offset_y),
                             to_physical(r, box_shadow.offset_x + geometry[1]),
                             to_physical(r, box_shadow.offset_y + geometry[2]))
        border_radius == to_physical(r, box_shadow.border_radius)
    IN  IF std_dev[1] > 0
        THEN scene_append(r, << BlurredRoundedRect(current_transform(r), shadow_rect,
                                                   shadow_color, border_radius,
                                                   std_dev) >>)
        ELSE scene_append(r, << Fill(current_transform(r), PaintSolid(shadow_color),
                                     ShapeRoundedRect(shadow_rect, border_radius)) >>)

\* combine_clip's update of the clip: the intersection, or the default (empty)
\* rectangle when there is none
intersect_clip_drops_nothing(state, rect) ==
    LET inter == RectIntersection(state.clip, rect)
    IN  [state |-> IF inter.some THEN [state EXCEPT !.clip = inter.rect] ELSE state,
         valid |-> inter.some]

intersect_clip(state, rect) ==
    LET inter == RectIntersection(state.clip, rect)
    IN  [state |-> [state EXCEPT !.clip = IF inter.some THEN inter.rect
                                          ELSE LogicalRectDefault],
         valid |-> inter.some]

\* combine_clip's count of the layer it pushes
track_clip_layer_forgotten(state) == state

track_clip_layer(state) == [state EXCEPT !.clip_layer_count = @ + 1]

\* the rectangles drawn as inputs have even extents, so that the halves are exact
combine_clip(r, rect, radius) ==
    LET border_radius == Min(Min(radius, rect.w \div 2), rect.h \div 2)
        transform == current_transform(r)
        clipped == intersect_clip(current_state(r), rect)
        new_state == track_clip_layer(clipped.state)
        clip_shape == IF border_radius > 0
                      THEN ShapeRoundedRect(to_kurbo_rect(r, rect),
                                            to_physical(r, border_radius))
                      ELSE ShapeRect(to_kurbo_rect(r, rect))
    IN  [r |-> scene_append(set_current_state(r, new_state),
                            << PushLayer(FracOne, transform, clip_shape) >>),
         ret |-> clipped.valid]

translate(r, distance) ==
    LET state == current_state(r)
    IN  set_current_state(r, [state EXCEPT
            !.transform = AffineMul(@, AffineTranslate(to_physical(r, distance[1]),
                                                       to_physical(r, distance[2]))),
            !.clip = LogicalRect(@.x - distance[1], @.y - distance[2], @.w, @.h)])

\* a rotate that takes the size of the bounding box as the clip and drops the
\* origin of the box
rotate_drops_origin(r, angle_in_degrees) ==
    LET state == current_state(r)
        w == IF angle_in_degrees % 180 = 0 THEN state.clip.w ELSE state.clip.h
        h == IF angle_in_degrees % 180 = 0 THEN state.clip.h ELSE state.clip.w
    IN  set_current_state(r, [state EXCEPT
            !.transform = AffineMul(@, AffineRotate(angle_in_degrees)),
            !.clip = LogicalRect(0, 0, w, h)])

rotate(r, angle_in_degrees) ==
    LET state == current_state(r)
        clip == state.clip
        sin == Sin(angle_in_degrees)
        cos == Cos(angle_in_degrees)
        px(p) == p[1] * cos - p[2] * sin
        py(p) == p[1] * sin + p[2] * cos
        corners == << <<clip.x, clip.y>>, <<clip.x + clip.w, clip.y>>,
                      <<clip.x, clip.y + clip.h>>, <<clip.x + clip.w, clip.y + clip.h>> >>
        xs == {px(corners[i]) : i \in 1..4}
        ys == {py(corners[i]) : i \in 1..4}
        ox == CHOOSE v \in xs : \A w \in xs : v <= w
        oy == CHOOSE v \in ys : \A w \in ys : v <= w
        ex == CHOOSE v \in xs : \A w \in xs : v >= w
        ey == CHOOSE v \in ys : \A w \in ys : v >= w
    IN  set_current_state(r, [state EXCEPT
            !.transform = AffineMul(@, AffineRotate(angle_in_degrees)),
            !.clip = LogicalRect(ox, oy, ex - ox, ey - oy)])

\* the factors drawn as inputs divide the clip's extents exactly
scale(r, x_factor, y_factor) ==
    LET state == current_state(r)
    IN  set_current_state(r, [state EXCEPT
            !.transform = AffineMul(@, AffineScale(x_factor, y_factor)),
            !.clip = LogicalRect(@.x, @.y, @.w \div x_factor, @.h \div y_factor)])

apply_opacity(r, opacity) ==
    LET state == current_state(r)
    IN  set_current_state(r, [state EXCEPT !.alpha = FracMul(@, opacity)])

\* save_state without the reset of the clip layer count
save_state_keeps_count(r) ==
    [r EXCEPT !.state_stack = Append(@, current_state(r))]

save_state(r) ==
    LET current == [current_state(r) EXCEPT !.clip_layer_count = 0]
    IN  [r EXCEPT !.state_stack = Append(@, current)]

\* restore_state without the test that a saved frame exists
restore_state_unguarded(r) ==
    LET old_state == Last(r.state_stack)
    IN  [r EXCEPT !.state_stack = Front(@),
                  !.scene = @ \o [i \in 1..old_state.clip_layer_count |-> PopLayer]]

\* restore_state that pops the frame but keeps its transform current
restore_state_keeps_transform(r) ==
    IF Len(r.state_stack) > 1
    THEN LET old_state == Last(r.state_stack)
             below == r.state_stack[Len(r.state_stack) - 1]
         IN  [r EXCEPT !.state_stack =
                           Append(SubSeq(@, 1, Len(@) - 2),
                                  [below EXCEPT !.transform = old_state.transform]),
                       !.scene = @ \o [i \in 1..old_state.clip_layer_count |-> PopLayer]]
    ELSE r

\* restore_state that pops the frame and leaves its clip layers open
restore_state_leaves_layers(r) ==
    IF Len(r.state_stack) > 1
    THEN [r EXCEPT !.state_stack = Front(@)]
    ELSE r

restore_state(r) ==
    IF Len(r.state_stack) > 1
    THEN LET old_state == Last(r.state_stack)
         IN  [r EXCEPT !.state_stack = Front(@),
                       !.scene = @ \o [i \in 1..old_state.clip_layer_count |-> PopLayer]]
    ELSE r

(***************************************************************************)
(* Images                                                                  *)
(***************************************************************************)
\* SharedImageBuffer: ptr is the address of its pixel data
SharedImageBuffer(ptr, format, width, height, pixels) ==
    [ptr |-> ptr, format |-> format, width |-> width, height |-> height,
     pixels |-> pixels]

\* ImageInner
EmbeddedImage(buffer) ==
    [kind |-> "EmbeddedImage", buffer |-> buffer,
     width |-> buffer.width, height |-> buffer.height, data |-> <<>>]

StaticTextures(width, height, data) ==
    [kind |-> "StaticTextures", buffer |-> SharedImageBuffer(0, "RGBA8Premultiplied", 0, 0, <<>>),
     width |-> width, height |-> height, data |-> data]

\* the variants that draw nothing: BackendStorage, BorrowedOpenGLTexture, None
OtherImage(kind, width, height) ==
    [kind |-> kind, buffer |-> SharedImageBuffer(0, "RGBA8Premultiplied", 0, 0, <<>>),
     width |-> width, height |-> height, data |-> <<>>]

\* ImageInner::NineSlice: the inner image and its border insets
NineSlice(inner, borders) ==
    [kind |-> "NineSlice", buffer |-> inner.buffer, width |-> inner.width,
     height |-> inner.height, data |-> <<>>, inner |-> inner, borders |-> borders]

\* ImageInner::Svg of the given size; rendered is what svg.render returns for
\* a target size: "Err", or the format of the buffer it rasterises
Svg(width, height, rendered) ==
    [kind |-> "Svg", buffer |-> SharedImageBuffer(0, "RGBA8Premultiplied", 0, 0, <<>>),
     width |-> width, height |-> height, data |-> <<>>, rendered |-> rendered]

\* ImageInner::WGPUTexture(WGPU26Texture): reader tells whether the item
\* renderer's wgpu_texture_reader is set at the draw, readback is what the
\* reader returns for the texture: an Option of a width, a height and the bytes
WGPUTexture(width, height, reader, readback) ==
    [kind |-> "WGPUTexture", buffer |-> SharedImageBuffer(0, "RGBA8Premultiplied", 0, 0, <<>>),
     width |-> width, height |-> height, data |-> <<>>, reader |-> reader,
     readback |-> readback]

\* the bytes of a pixel sequence as they lie in memory (as_bytes().to_vec())
RECURSIVE as_bytes(_)
as_bytes(pixels) ==
    IF pixels = <<>> THEN <<>> ELSE Head(pixels) \o as_bytes(Tail(pixels))

\* the bytes of a pixel sequence: RGB8 pixels get an opaque alpha channel
\* (Rgb8Pixel -> Rgba8Pixel), RGBA8 pixels are copied (as_bytes().to_vec())
RECURSIVE rgba_bytes(_, _)
rgba_bytes(format, pixels) ==
    IF pixels = <<>> THEN <<>>
    ELSE LET p == Head(pixels)
         IN  (IF format = "RGB8" THEN <<p[1], p[2], p[3], 255>> ELSE p)
             \o rgba_bytes(format, Tail(pixels))

\* peniko::ImageAlphaType of a buffer
alpha_type_of(format) ==
    IF format = "RGBA8Premultiplied" THEN "AlphaPremultiplied" ELSE "Alpha"

\* an image lookup that converts the buffer again on every call
get_or_create_image_data_uncached(r, buffer) ==
    LET arc_data == [id |-> r.next_blob,
                     bytes |-> rgba_bytes(buffer.format, buffer.pixels)]
    IN  [r |-> [r EXCEPT !.image_cache =
                    [k \in DOMAIN r.image_cache \cup {buffer.ptr} |-> arc_data],
                         !.next_blob = @ + 1],
         data |-> [blob |-> arc_data, format |-> "Rgba8",
                   alpha_type |-> alpha_type_of(buffer.format),
                   width |-> buffer.width, height |-> buffer.height]]

\* returns the item renderer (its cache may have grown) and the image data
get_or_create_image_data(r, buffer) ==
    LET cache_key == buffer.ptr
        hit == cache_key \in DOMAIN r.image_cache
        arc_data == IF hit THEN r.image_cache[cache_key]
                    ELSE [id |-> r.next_blob,
                          bytes |-> rgba_bytes(buffer.format, buffer.pixels)]
        cache == IF hit THEN r.image_cache
                 ELSE [k \in DOMAIN r.image_cache \cup {cache_key} |->
                          IF k = cache_key THEN arc_data ELSE r.image_cache[k]]
    IN  [r |-> [r EXCEPT !.image_cache = cache,
                         !.next_blob = IF hit THEN @ ELSE @ + 1],
         data |-> [blob |-> arc_data, format |-> "Rgba8",
                   alpha_type |-> alpha_type_of(buffer.format),
                   width |-> buffer.width, height |-> buffer.height]]

\* i_slint_core::graphics::fit for ImageFit::Fill without tiling: the source
\* rectangle is stretched over the whole target
fit(phys_size, source_clip) ==
    [offset |-> <<0, 0>>, size |-> phys_size,
     source_to_target_x |-> phys_size[1] \div source_clip.w,
     source_to_target_y |-> phys_size[2] \div source_clip.h]

PaintImage(image_data, alpha) == Paint("Image", ColorTransparent, None, <<>>, image_data, alpha)

\* i_slint_core::graphics::fit9slice without tiling: three columns and three
\* rows; the outer ones keep the border insets (scaled by the scale factor),
\* the middle ones take what is left of the source and of the target
fit9slice(source_size, borders, phys_size, sf) ==
    LET span(extent, target, first, last) ==
            << [clip |-> <<0, first>>, tgt |-> <<0, first * sf>>],
               [clip |-> <<first, extent - first - last>>,
                tgt |-> <<first * sf, target - (first + last) * sf>>],
               [clip |-> <<extent - last, last>>,
                tgt |-> <<target - last * sf, last * sf>>] >>
        xs == span(source_size[1], phys_size[1], borders.left, borders.right)
        ys == span(source_size[2], phys_size[2], borders.top, borders.bottom)
    IN  [k \in 1..9 |->
            LET x == xs[((k - 1) % 3) + 1]
                y == ys[((k - 1) \div 3) + 1]
            IN  [clip_rect |-> LogicalRect(x.clip[1], y.clip[1], x.clip[2], y.clip[2]),
                 offset |-> <<x.tgt[1], y.tgt[1]>>,
                 size |-> <<x.tgt[2], y.tgt[2]>>]]

\* the loop over the slices of a nine-slice image: what it appends to the scene
RECURSIVE draw_slices(_, _, _, _)
draw_slices(fits, image_data, alpha, transform) ==
    IF fits = <<>> THEN <<>>
    ELSE LET f == Head(fits)
             rest == draw_slices(Tail(fits), image_data, alpha, transform)
         IN  IF RectIsEmpty(f.clip_rect) THEN rest
             ELSE LET scale_x == f.size[1] \div f.clip_rect.w
                      scale_y == f.size[2] \div f.clip_rect.h
                      translate_x == f.offset[1] - f.clip_rect.x * scale_x
                      translate_y == f.offset[2] - f.clip_rect.y * scale_y
                      slice_transform ==
                          AffineMul(AffineMul(transform,
                                              AffineTranslate(translate_x, translate_y)),
                                    AffineScale(scale_x, scale_y))
                      clip_rect == KRect(f.offset[1], f.offset[2],
                                         f.offset[1] + f.size[1],
                                         f.offset[2] + f.size[2])
                  IN  << PushLayer(alpha, slice_transform, ShapeRect(clip_rect)),
                         Fill(AffineIdentity, PaintImage(image_data, alpha),
                              ShapeRect(KRect(0, 0, image_data.width, image_data.height))),
                         PopLayer >> \o rest

\* the buffer svg.render(Some(target_size)) returns: one pixel value all over
svg_render(format, target_size) ==
    SharedImageBuffer(0, format, target_size[1], target_size[2],
                      [i \in 1..(target_size[1] * target_size[2]) |->
                          IF format = "RGB8" THEN <<7, 7, 7>> ELSE <<7, 7, 7, 255>>])

\* the match on the source of an image whose size and target are not empty
draw_image_source(r, image, size) ==
    LET phys_size == <<size[1] * r.sf, size[2] * r.sf>>
        source_clip == LogicalRect(0, 0, image.width, image.height)
    IN  CASE image.kind = "EmbeddedImage" ->
              LET fit_result == fit(phys_size, source_clip)
                  got == get_or_create_image_data(r, image.buffer)
                  r1 == got.r
                  alpha == current_state(r1).alpha
                  image_brush == PaintImage(got.data, alpha)
                  image_transform ==
                      AffineMul(AffineMul(AffineMul(current_transform(r1),
                          AffineTranslate(fit_result.offset[1], fit_result.offset[2])),
                          AffineScale(fit_result.source_to_target_x,
                                      fit_result.source_to_target_y)),
                          AffineTranslate(-source_clip.x, -source_clip.y))
                  target_rect == KRect(0, 0, got.data.width, got.data.height)
                  clip_rect == KRect(fit_result.offset[1], fit_result.offset[2],
                                     fit_result.offset[1] + fit_result.size[1],
                                     fit_result.offset[2] + fit_result.size[2])
              IN  scene_append(r1,
                     << PushLayer(alpha, current_transform(r1), ShapeRect(clip_rect)),
                        Fill(image_transform, image_brush, ShapeRect(target_rect)),
                        PopLayer >>)
          [] image.kind = "StaticTextures" ->
              LET image_data == [blob |-> [id |-> r.next_blob, bytes |-> image.data],
                                 format |-> "Rgba8", alpha_type |-> "AlphaPremultiplied",
                                 width |-> image.width, height |-> image.height]
                  image_brush == PaintImage(image_data, current_state(r).alpha)
                  target_rect == KRect(0, 0, to_physical(r, size[1]), to_physical(r, size[2]))
              IN  scene_append([r EXCEPT !.next_blob = @ + 1],
                     << Fill(current_transform(r), image_brush, ShapeRect(target_rect)) >>)
          [] image.kind = "NineSlice" ->
              IF image.inner.kind # "EmbeddedImage" THEN r
              ELSE LET fits == fit9slice(<<image.inner.width, image.inner.height>>,
                                         image.borders, phys_size, r.sf)
                       got == get_or_create_image_data(r, image.inner.buffer)
                   IN  scene_append(got.r,
                          draw_slices(fits, got.data, current_state(r).alpha,
                                      current_transform(r)))
          [] image.kind = "Svg" ->
              IF image.rendered = "Err" THEN r
              ELSE LET svg_fit == fit(phys_size, source_clip)
                       target_size == <<image.width * svg_fit.source_to_target_x,
                                        image.height * svg_fit.source_to_target_y>>
                       buffer == svg_render(image.rendered, target_size)
                       image_data == [blob |-> [id |-> r.next_blob,
                                                bytes |-> as_bytes(buffer.pixels)],
                                      format |-> "Rgba8",
                                      alpha_type |-> alpha_type_of(buffer.format),
                                      width |-> buffer.width, height |-> buffer.height]
                       dest_rect == KRect(svg_fit.offset[1], svg_fit.offset[2],
                                          svg_fit.offset[1] + svg_fit.size[1],
                                          svg_fit.offset[2] + svg_fit.size[2])
                   IN  scene_append([r EXCEPT !.next_blob = @ + 1],
                          << Fill(current_transform(r),
                                  PaintImage(image_data, current_state(r).alpha),
                                  ShapeRect(dest_rect)) >>)
          [] image.kind = "WGPUTexture" ->
              IF ~image.reader THEN r
              ELSE IF ~image.readback.some THEN r
              ELSE LET image_data == [blob |-> [id |-> r.next_blob,
                                                bytes |-> image.readback.rgba_data],
                                      format |-> "Rgba8",
                                      alpha_type |-> "AlphaPremultiplied",
                                      width |-> image.readback.width,
                                      height |-> image.readback.height]
                       target_rect == KRect(0, 0, to_physical(r, size[1]),
                                            to_physical(r, size[2]))
                   IN  scene_append([r EXCEPT !.next_blob = @ + 1],
                          << Fill(current_transform(r),
                                  PaintImage(image_data, current_state(r).alpha),
                                  ShapeRect(target_rect)) >>)
          [] OTHER -> r

\* a draw_image without the tests of the target size and of the source size
draw_image_unchecked(r, image, size) == draw_image_source(r, image, size)

draw_image(r, image, size) ==
    IF size[1] <= 0 \/ size[2] <= 0 THEN r
    ELSE IF image.width = 0 \/ image.height = 0 THEN r
    ELSE draw_image_source(r, image, size)

\* draw_image_direct: an embedded buffer is converted and filled at its
\* natural size, without the cache; the other sources draw nothing
draw_image_direct(r, image) ==
    IF image.width = 0 \/ image.height = 0 THEN r
    ELSE IF image.kind # "EmbeddedImage" THEN r
    ELSE LET buffer == image.buffer
             image_data == [blob |-> [id |-> r.next_blob,
                                      bytes |-> rgba_bytes(buffer.format, buffer.pixels)],
                            format |-> "Rgba8",
                            alpha_type |-> alpha_type_of(buffer.format),
                            width |-> buffer.width, height |-> buffer.height]
             target_rect == KRect(0, 0, to_physical(r, image.width),
                                  to_physical(r, image.height))
         IN  scene_append([r EXCEPT !.next_blob = @ + 1],
                << Fill(current_transform(r),
                        PaintImage(image_data, current_state(r).alpha),
                        ShapeRect(target_rect)) >>)

(***************************************************************************)
(* Inputs of the item renderer calls                                       *)
(***************************************************************************)
ColorRed == Rgba(255, 0, 0, 255)

ColorWhite == Rgba(255, 255, 255, 255)

GradientStops == << [position |-> 0, color |-> ColorRed],
                    [position |-> 1, color |-> ColorWhite] >>

\* the logical size of the frame-root clip
FrameSize == <<8, 8>>

ClipRects == { LogicalRect(2, 2, 4, 4), LogicalRect(6, 6, 2, 2) }

ClipRadii == {0, 1}

Distances == { <<2, 0>>, <<-2, -2>> }

Angles == {0, 90}

ScaleFactors == { <<2, 2>> }

Opacities == { <<1, 2>>, <<2, 1>> }

RectBrushes == { SolidColor(ColorRed), LinearGradient(90, GradientStops) }

ImageA == EmbeddedImage(SharedImageBuffer(1, "RGB8", 2, 1, << <<10, 20, 30>>, <<40, 50, 60>> >>))

Images == { ImageA }

DrawSizes == { <<4, 2>> }

(***************************************************************************)
(* SpecItem: the calls on one VelloItemRenderer during a walk              *)
(***************************************************************************)
\* the item renderer made of the variables
cur == ItemRenderer(scene, state_stack, image_cache, next_blob, scale_factor)

\* what the history remembers of a call: its name and result, and the stack,
\* the scene and the history of the frames just before it
Call(name, ret, rect) ==
    [name |-> name, ret |-> ret, rect |-> rect,
     stack |-> state_stack, scene |-> scene, hist |-> hist]

NoCall == [name |-> "new", ret |-> TRUE, rect |-> LogicalRectDefault,
           stack |-> <<>>, scene |-> <<>>, hist |-> <<>>]

\* the layers a scene has pushed and not popped
RECURSIVE OpenLayers(_)
OpenLayers(sc) ==
    IF sc = <<>> THEN 0
    ELSE OpenLayers(Front(sc))
         + (CASE Last(sc).op = "push_layer" -> 1
              [] Last(sc).op = "pop_layer" -> -1
              [] OTHER -> 0)

\* the frame history at save_state: the frame that was on top and the layers
\* open then; combines counts the combine_clip calls made on the frame since
HistFrame(top, open) == [combines |-> 0, saved |-> top, open |-> open]

\* the variables after a call that left the item renderer as res
ItemCall(res, call, h) ==
    /\ state_stack # <<>>
    /\ ops < MaxOps
    /\ ~panicked
    /\ scene' = res.scene
    /\ state_stack' = res.state_stack
    /\ image_cache' = res.image_cache
    /\ next_blob' = res.next_blob
    /\ ops' = ops + 1
    /\ last_op' = call
    /\ hist' = h
    /\ UNCHANGED <<scale_factor, renderer_vars>>

\* the history of a draw_rectangle call remembers its brush and size too
RectangleCall(brush, size) ==
    [name |-> "draw_rectangle", ret |-> TRUE, rect |-> LogicalRectDefault,
     stack |-> state_stack, scene |-> scene, hist |-> hist, brush |-> brush,
     size |-> size]

DrawRectangle ==
    \E brush \in RectBrushes, size \in DrawSizes :
        ItemCall(draw_rectangle(cur, brush, size), RectangleCall(brush, size), hist)

DrawImage ==
    \E image \in Images, size \in DrawSizes :
        ItemCall(draw_image(cur, image, size),
                 Call("draw_image", TRUE, LogicalRectDefault), hist)

CombineClip ==
    \E rect \in ClipRects, radius \in ClipRadii :
        LET res == combine_clip(cur, rect, radius)
        IN  ItemCall(res.r, Call("combine_clip", res.ret, rect),
                     [hist EXCEPT ![Len(hist)].combines = @ + 1])

\* the history of a call that remembers its arguments too
ArgsCall(name, args) ==
    [name |-> name, ret |-> TRUE, rect |-> LogicalRectDefault,
     stack |-> state_stack, scene |-> scene, hist |-> hist, args |-> args]

Translate ==
    \E d \in Distances :
        ItemCall(translate(cur, d), ArgsCall("translate", [distance |-> d]), hist)

Rotate ==
    \E a \in Angles :
        ItemCall(rotate(cur, a), ArgsCall("rotate", [angle_in_degrees |-> a]), hist)

\* only factors that divide the current clip's extents exactly are drawn
Scale ==
    \E f \in ScaleFactors :
        /\ state_stack # <<>>
        /\ Last(state_stack).clip.w % f[1] = 0
        /\ Last(state_stack).clip.h % f[2] = 0
        /\ ItemCall(scale(cur, f[1], f[2]),
                    ArgsCall("scale", [x_factor |-> f[1], y_factor |-> f[2]]), hist)

\* the history of an apply_opacity call remembers its factor too
OpacityCall(opacity) ==
    [name |-> "apply_opacity", ret |-> TRUE, rect |-> LogicalRectDefault,
     stack |-> state_stack, scene |-> scene, hist |-> hist, opacity |-> opacity]

ApplyOpacity ==
    \E o \in Opacities :
        ItemCall(apply_opacity(cur, o), OpacityCall(o), hist)

SaveState ==
    /\ Len(state_stack) < MaxDepth
    /\ ItemCall(save_state(cur), Call("save_state", TRUE, LogicalRectDefault),
                Append(hist, HistFrame(Last(state_stack), OpenLayers(scene))))

RestoreState ==
    ItemCall(restore_state(cur), Call("restore_state", TRUE, LogicalRectDefault),
             IF Len(hist) > 1 THEN Front(hist) ELSE hist)

ItemNext ==
    \/ DrawRectangle
    \/ DrawImage
    \/ CombineClip
    \/ Translate
    \/ Rotate
    \/ Scale
    \/ ApplyOpacity
    \/ SaveState
    \/ RestoreState

(***************************************************************************)
(* WgpuBackend. An Option<T> field is a record with a flag `some`; the     *)
(* surface configuration and the intermediate target carry their size.     *)
(***************************************************************************)
Absent == [some |-> FALSE, width |-> 0, height |-> 0]

Present(width, height) == [some |-> TRUE, width |-> width, height |-> height]

\* WgpuBackend::new: every field is None
WgpuBackend_new ==
    [instance |-> Absent, device |-> Absent, queue |-> Absent,
     surface_config |-> Absent, surface |-> Absent, vello_renderer |-> Absent,
     target_texture |-> Absent, target_view |-> Absent, blitter |-> Absent]

\* a create_targets that keeps an intermediate texture that exists
create_targets_once(b, width, height) ==
    IF b.target_texture.some THEN b
    ELSE [b EXCEPT !.target_texture = Present(width, height),
                   !.target_view = Present(width, height),
                   !.blitter = Present(0, 0)]

create_targets(b, width, height) ==
    [b EXCEPT !.target_texture = Present(width, height),
              !.target_view = Present(width, height),
              !.blitter = Present(0, 0)]

\* a set_window_handle that stores instance, device and queue before it
\* creates the vello renderer
set_window_handle_stores_early(b, size, outcome) ==
    IF outcome = "init_err" THEN [b |-> b, ret |-> "err"]
    ELSE LET b1 == [b EXCEPT !.instance = Present(0, 0), !.device = Present(0, 0),
                             !.queue = Present(0, 0)]
         IN  IF outcome = "renderer_err" THEN [b |-> b1, ret |-> "err"]
             ELSE [b |-> create_targets(
                            [b1 EXCEPT !.surface_config = Present(size[1], size[2]),
                                       !.surface = Present(0, 0),
                                       !.vello_renderer = Present(0, 0)],
                            size[1], size[2]),
                   ret |-> "ok"]

\* a set_window_handle that leaves the intermediate targets to a later call
set_window_handle_without_targets(b, size, outcome) ==
    IF outcome = "init_err" \/ outcome = "renderer_err"
    THEN [b |-> b, ret |-> "err"]
    ELSE [b |-> [b EXCEPT !.instance = Present(0, 0),
                          !.device = Present(0, 0),
                          !.queue = Present(0, 0),
                          !.surface_config = Present(size[1], size[2]),
                          !.surface = Present(0, 0),
                          !.vello_renderer = Present(0, 0)],
          ret |-> "ok"]

\* outcome: what the GPU API answers ("ok", "init_err": no instance, adapter,
\* device or surface; "renderer_err": vello::Renderer::new failed)
set_window_handle(b, size, outcome) ==
    IF outcome = "init_err" \/ outcome = "renderer_err"
    THEN [b |-> b, ret |-> "err"]
    ELSE [b |-> create_targets(
                   [b EXCEPT !.instance = Present(0, 0),
                             !.device = Present(0, 0),
                             !.queue = Present(0, 0),
                             !.surface_config = Present(size[1], size[2]),
                             !.surface = Present(0, 0),
                             !.vello_renderer = Present(0, 0)],
                   size[1], size[2]),
          ret |-> "ok"]

backend_clear_graphics_context(b) ==
    [b EXCEPT !.blitter = Absent, !.target_view = Absent, !.target_texture = Absent,
              !.vello_renderer = Absent, !.surface = Absent, !.surface_config = Absent,
              !.queue = Absent, !.device = Absent, !.instance = Absent]

\* gpu: what the GPU answers to get_current_texture and render_to_texture;
\* the result is Ok or one of the two kinds of Err
render_scene(b, gpu) ==
    IF ~b.device.some \/ ~b.queue.some \/ ~b.vello_renderer.some \/ ~b.surface.some
       \/ ~b.target_view.some \/ ~b.target_texture.some \/ ~b.blitter.some
    THEN "not_initialized"
    ELSE IF gpu = "ok" THEN "ok" ELSE "gpu_err"

\* whether with_graphics_api hands Some(GraphicsAPI) to its callback
backend_has_graphics_api(b) == b.instance.some /\ b.device.some /\ b.queue.some

\* a resize that reconfigures the surface and keeps the old targets
backend_resize_keeps_targets(b, width, height) ==
    IF ~b.surface_config.some THEN [b |-> b, ret |-> "ok"]
    ELSE [b |-> [b EXCEPT !.surface_config = Present(width, height)], ret |-> "ok"]

\* WgpuBackend::resize
backend_resize(b, width, height) ==
    IF ~b.surface_config.some THEN [b |-> b, ret |-> "ok"]
    ELSE LET b1 == [b EXCEPT !.surface_config = Present(width, height)]
         IN  IF ~b1.device.some \/ ~b1.surface.some
             THEN [b |-> b1, ret |-> "err"]
             ELSE [b |-> create_targets(b1, width, height), ret |-> "ok"]

(***************************************************************************)
(* VelloRenderer                                                           *)
(***************************************************************************)
NoNotifier == 0

\* an event of the history of one call
Ev(ev, what, cb, borrow, scene_len) ==
    [ev |-> ev, what |-> what, cb |-> cb, borrow |-> borrow, scene_len |-> scene_len]

\* an event of the history of a call on the backend: the size given and the
\* backend's fields at that point
BackendEv(ev, what, size, b) ==
    [ev |-> ev, what |-> what, size |-> size, backend |-> b]

\* RendererSealed::set_rendering_notifier
set_rendering_notifier(notifier, callback) ==
    [notifier |-> callback,
     ret |-> IF notifier # NoNotifier THEN "AlreadySet" ELSE "ok"]

\* the item renderer calls of a walk, as values
ItemOp(f, brush, image, size, rect, radius) ==
    [f |-> f, brush |-> brush, image |-> image, size |-> size, rect |-> rect,
     radius |-> radius]

OpDrawRectangle(brush, size) ==
    ItemOp("draw_rectangle", brush, ImageA, size, LogicalRectDefault, 0)

OpDrawImage(image, size) ==
    ItemOp("draw_image", OtherBrush, image, size, LogicalRectDefault, 0)

OpCombineClip(rect, radius) ==
    ItemOp("combine_clip", OtherBrush, ImageA, <<0, 0>>, rect, radius)

OpSaveState == ItemOp("save_state", OtherBrush, ImageA, <<0, 0>>, LogicalRectDefault, 0)

OpRestoreState == ItemOp("restore_state", OtherBrush, ImageA, <<0, 0>>, LogicalRectDefault, 0)

apply_item_op(r, c) ==
    CASE c.f = "draw_rectangle" -> draw_rectangle(r, c.brush, c.size)
      [] c.f = "draw_image" -> draw_image(r, c.image, c.size)
      [] c.f = "combine_clip" -> combine_clip(r, c.rect, c.radius).r
      [] c.f = "save_state" -> save_state(r)
      [] c.f = "restore_state" -> restore_state(r)

\* render_component_items: the calls the item tree makes, in order
RECURSIVE render_component_items(_, _)
render_component_items(r, program) ==
    IF program = <<>> THEN r
    ELSE render_component_items(apply_item_op(r, Head(program)), Tail(program))

(***************************************************************************)
(* render(). A frame value R holds what a render call changes: the fields  *)
(* of the renderer it writes, the borrow state of the scene RefCell, the   *)
(* history of the call and res: "run" while the call runs, then "ok",      *)
(* "err" or "panic".                                                       *)
(***************************************************************************)
Frame(first_time, collector, sc, cache, nb) ==
    [first_time |-> first_time, collector |-> collector, scene |-> sc,
     image_cache |-> cache, next_blob |-> nb, borrow |-> "none", log |-> <<>>,
     res |-> "run"]

frame_log(R, ev, what) ==
    [R EXCEPT !.log = Append(@, Ev(ev, what, rendering_notifier, R.borrow, Len(R.scene)))]

\* VelloRenderer::with_graphics_api around callback.notify(state, &api): the
\* backend hands over Option<GraphicsAPI>, which is unwrapped
with_graphics_api(R, state) ==
    IF backend_has_graphics_api(backend)
    THEN frame_log(R, "notify", state)
    ELSE [R EXCEPT !.res = "panic"]

\* a first-time block that leaves rendering_first_time set
rendering_setup_every_call(R, collector_enabled) ==
    IF R.first_time
    THEN LET R1 == [R EXCEPT !.collector = collector_enabled]
         IN  IF rendering_notifier # NoNotifier
             THEN with_graphics_api(R1, "RenderingSetup")
             ELSE R1
    ELSE R

\* the first-time block that opens both render functions
rendering_setup(R, collector_enabled) ==
    IF R.first_time
    THEN LET R1 == [R EXCEPT !.first_time = FALSE, !.collector = collector_enabled]
         IN  IF rendering_notifier # NoNotifier
             THEN with_graphics_api(R1, "RenderingSetup")
             ELSE R1
    ELSE R

\* VelloRenderer::window_adapter()?
window_adapter(R) ==
    IF maybe_window_adapter = "alive" THEN R ELSE [R EXCEPT !.res = "err"]

\* self.window_adapter()? in a call that is still running
window_adapter_if_running(R) ==
    IF R.res = "run" THEN window_adapter(R) ELSE R

\* a closure that keeps its mutable borrow of the scene over BeforeRendering
frame_begin_holds_scene(R, in, width, height) ==
    LET R1 == frame_log([R EXCEPT !.borrow = "mut", !.scene = <<>>], "reset", "scene")
        R2 == IF in.window_item = "solid"
              THEN [R1 EXCEPT !.scene = Append(@,
                        Fill(AffineIdentity, PaintSolid(ColorWhite),
                             ShapeRect(KRect(0, 0, width, height))))]
              ELSE R1
    IN  IF rendering_notifier # NoNotifier
        THEN with_graphics_api(R2, "BeforeRendering")
        ELSE R2

\* the closure given to draw_contents, up to the BeforeRendering notification
frame_begin(R, in, width, height) ==
    LET R1 == frame_log([R EXCEPT !.borrow = "mut", !.scene = <<>>], "reset", "scene")
        R2 == IF in.window_item = "solid"
              THEN [R1 EXCEPT !.scene = Append(@,
                        Fill(AffineIdentity, PaintSolid(ColorWhite),
                             ShapeRect(KRect(0, 0, width, height))))]
              ELSE R1
    IN  IF rendering_notifier # NoNotifier
        THEN LET R3 == with_graphics_api([R2 EXCEPT !.borrow = "none"], "BeforeRendering")
             IN  IF R3.res = "run" THEN [R3 EXCEPT !.borrow = "mut"] ELSE R3
        ELSE R2

\* a frame that leaves the gradient of the window item undrawn
draw_window_background_skipped(r, in) == r

\* the window item's gradient background, drawn over the logical window size
draw_window_background(r, in) ==
    IF in.window_item = "gradient"
    THEN draw_rectangle(r, LinearGradient(90, GradientStops),
                        <<window_size[1] \div scale_factor,
                          window_size[2] \div scale_factor>>)
    ELSE r

\* the end of the closure, once the item tree left the item renderer as r: the
\* post-render callback and the metrics
frame_walk_end(R, r, post_callback) ==
    LET Rw == frame_log([R EXCEPT !.scene = r.scene, !.image_cache = r.image_cache,
                                  !.next_blob = r.next_blob], "walk", "items")
        Rp == IF post_callback
              THEN frame_log([Rw EXCEPT !.scene =
                                 draw_rectangle(r, SolidColor(ColorWhite), <<2, 2>>).scene],
                             "post_callback", "cursor")
              ELSE Rw
        Rm == IF Rp.collector THEN frame_log(Rp, "metrics", "frame") ELSE Rp
    IN  [Rm EXCEPT !.borrow = "none"]

\* the rest of the closure: the item renderer, the window background, the
\* walk, the post-render callback and the metrics
frame_walk(R, in, width, height, initial_transform, post_callback) ==
    frame_walk_end(R,
        render_component_items(
            draw_window_background(
                new_with_transform(R.scene, scale_factor, <<width, height>>,
                                   R.image_cache, R.next_blob, initial_transform),
                in),
            in.program),
        post_callback)

\* the closure after BeforeRendering, unless that delivery ended the call
frame_continue(R, in, width, height, initial_transform, post_callback) ==
    IF R.res # "run" THEN R
    ELSE frame_walk(R, in, width, height, initial_transform, post_callback)

\* window_inner.draw_contents(closure).unwrap_or(Ok(())): None when the
\* window has no component
draw_contents(R, in, width, height, initial_transform, post_callback) ==
    IF ~in.has_component THEN R
    ELSE frame_continue(frame_begin(R, in, width, height), in, width, height,
                        initial_transform, post_callback)

\* a tail that goes on to AfterRendering and Ok whatever render_scene returns
frame_submit_swallows_error(R, in) ==
    LET Rs == frame_log([R EXCEPT !.borrow = "shared"], "submit",
                        render_scene(backend, in.gpu))
        Rd == [Rs EXCEPT !.borrow = "none"]
        Ra == IF rendering_notifier # NoNotifier /\ backend_has_graphics_api(backend)
              THEN with_graphics_api(Rd, "AfterRendering")
              ELSE Rd
    IN  [Ra EXCEPT !.res = "ok"]

\* the tail of both render functions: render_scene and AfterRendering
frame_submit(R, in) ==
    LET Rb == [R EXCEPT !.borrow = "shared"]
        ok == render_scene(backend, in.gpu) = "ok"
        Rs == frame_log(Rb, "submit", render_scene(backend, in.gpu))
    IN  IF ~ok THEN [Rs EXCEPT !.res = "err", !.borrow = "none"]
        ELSE LET Rd == [Rs EXCEPT !.borrow = "none"]
                 Ra == IF rendering_notifier # NoNotifier
                       THEN with_graphics_api(Rd, "AfterRendering")
                       ELSE Rd
             IN  IF Ra.res = "run" THEN [Ra EXCEPT !.res = "ok"] ELSE Ra

\* the ? after draw_contents, then the tail
frame_finish(R, in) ==
    IF R.res # "run" THEN R ELSE frame_submit(R, in)

\* a frame of the given physical size, once the window adapter was looked up
draw_frame(R, in, width, height, initial_transform, post_callback) ==
    IF R.res # "run" THEN R
    ELSE frame_finish(draw_contents(R, in, width, height, initial_transform,
                                    post_callback), in)

\* render() after its first-time block
render_frame(R, in, width, height) ==
    IF R.res # "run" THEN R
    ELSE IF width = 0 \/ height = 0 THEN [R EXCEPT !.res = "ok"]
    ELSE draw_frame(R, in, width, height, AffineIdentity, FALSE)

render(R, in) ==
    render_frame(window_adapter_if_running(rendering_setup(R, in.collector_enabled)),
                 in, window_size[1], window_size[2])

\* the initial transform of render_transformed_with_post_callback
initial_transform_of(in) ==
    IF in.rotation_degrees # 0
    THEN AffineMul(AffineTranslate(in.translation[1], in.translation[2]),
                   AffineRotate(in.rotation_degrees))
    ELSE AffineIdentity

\* render_transformed_with_post_callback() after its first-time block
render_transformed_frame(R, in, width, height) ==
    IF R.res # "run" THEN R
    ELSE IF width = 0 \/ height = 0 THEN [R EXCEPT !.res = "ok"]
    ELSE draw_frame(window_adapter(R), in, width, height, initial_transform_of(in),
                    in.post_render_callback)

render_transformed_with_post_callback(R, in) ==
    render_transformed_frame(rendering_setup(R, in.collector_enabled), in,
                             in.size[1], in.size[2])

\* Drop for VelloRenderer, up to clear_graphics_context: the teardown
\* notification is made only when the backend hands over Some(api)
drop_notify(R) ==
    IF ~R.first_time /\ rendering_notifier # NoNotifier
       /\ backend_has_graphics_api(backend)
    THEN frame_log(R, "notify", "RenderingTeardown")
    ELSE R

(***************************************************************************)
(* Spec: the calls on a VelloRenderer<WgpuBackend>                         *)
(***************************************************************************)
Callbacks == {1, 2}

WindowSizes == { <<8, 8>>, <<0, 8>> }

SurfaceSizes == { <<8, 8>>, <<4, 4>> }

RectangleProgram == << OpDrawRectangle(SolidColor(ColorRed), <<4, 4>>) >>

Programs ==
    { RectangleProgram,
      << OpSaveState, OpCombineClip(LogicalRect(2, 2, 4, 4), 0),
         OpDrawImage(ImageA, <<4, 4>>), OpRestoreState,
         OpDrawImage(ImageA, <<4, 4>>) >> }

\* what a render() call finds: the window's component and window item, the
\* calls of the item tree and the answer of the GPU
RenderInput(has_component, window_item, program, gpu) ==
    [has_component : has_component, window_item : window_item, program : program,
     gpu : gpu, collector_enabled : {FALSE},
     size : { <<8, 8>> }, rotation_degrees : {0}, translation : { <<0, 0>> },
     post_render_callback : {FALSE}]

RenderInputs ==
    RenderInput({FALSE}, {"solid"}, {RectangleProgram}, {"ok"})
    \cup RenderInput({TRUE}, {"solid"}, Programs, {"ok", "err"})
    \cup RenderInput({TRUE}, {"gradient"}, {RectangleProgram}, {"ok"})

\* the arguments of a render_transformed_with_post_callback() call
RenderTransformedInput(collector_enabled, size, rotation_degrees, post_render_callback) ==
    [has_component : {TRUE}, window_item : {"solid"}, program : {RectangleProgram},
     gpu : {"ok"}, collector_enabled : collector_enabled,
     size : size, rotation_degrees : rotation_degrees,
     translation : { <<8, 0>> }, post_render_callback : post_render_callback]

RenderTransformedInputs ==
    RenderTransformedInput({TRUE}, { <<8, 8>> }, {0, 90}, BOOLEAN)
    \cup RenderTransformedInput({FALSE}, { <<8, 0>> }, {0}, {FALSE})

Live == ~dropped /\ ~panicked

\* the RenderingSetup and RenderingTeardown notifications among the events of a
\* call (the other notifications of a call are in its log)
RECURSIVE Notifications(_, _)
Notifications(events, call) ==
    IF events = <<>> THEN <<>>
    ELSE (IF Head(events).ev = "notify"
             /\ Head(events).what \in {"RenderingSetup", "RenderingTeardown"}
          THEN << [call |-> call, state |-> Head(events).what, cb |-> Head(events).cb] >>
          ELSE <<>>) \o Notifications(Tail(events), call)

\* the start of a call: the notifier, the scene, the image cache and the
\* backend the call found
CallEv(name) ==
    [ev |-> "call", what |-> name, cb |-> rendering_notifier, borrow |-> "none",
     scene_len |-> Len(scene), image_cache |-> image_cache, next_blob |-> next_blob,
     backend |-> backend]

SetRenderingNotifier ==
    \E callback \in Callbacks :
        LET res == set_rendering_notifier(rendering_notifier, callback)
        IN  /\ Live
            /\ rendering_notifier' = res.notifier
            /\ log' = << Ev("call", "set_rendering_notifier", rendering_notifier,
                            "none", Len(scene)),
                         Ev("return", res.ret, callback, "none", Len(scene)) >>
            /\ UNCHANGED <<item_vars, scale_factor, rendering_first_time,
                           rendering_metrics_collector, maybe_window_adapter,
                           window_size, backend, dropped, panicked, render_calls,
                           frame_rendered, notifications>>

SetWindowAdapter ==
    /\ Live
    /\ maybe_window_adapter' = "alive"
    /\ log' = <<>>
    /\ UNCHANGED <<item_vars, scale_factor, rendering_notifier, rendering_first_time,
                   rendering_metrics_collector, window_size, backend, dropped,
                   panicked, render_calls, frame_rendered, notifications>>

\* the window adapter is destroyed: the renderer's Weak no longer upgrades
WindowAdapterGone ==
    /\ Live
    /\ maybe_window_adapter = "alive"
    /\ maybe_window_adapter' = "dead"
    /\ log' = <<>>
    /\ UNCHANGED <<item_vars, scale_factor, rendering_notifier, rendering_first_time,
                   rendering_metrics_collector, window_size, backend, dropped,
                   panicked, render_calls, frame_rendered, notifications>>

\* the window system resizes the window
SetWindowSize ==
    \E size \in WindowSizes :
        /\ Live
        /\ window_size # size
        /\ window_size' = size
        /\ log' = <<>>
        /\ UNCHANGED <<item_vars, scale_factor, rendering_notifier,
                       rendering_first_time, rendering_metrics_collector,
                       maybe_window_adapter, backend, dropped, panicked,
                       render_calls, frame_rendered, notifications>>

SetWindowHandle ==
    \E size \in SurfaceSizes, outcome \in {"ok", "init_err", "renderer_err"} :
        LET res == set_window_handle(backend, size, outcome)
        IN  /\ Live
            /\ backend' = res.b
            /\ log' = << BackendEv("call", "set_window_handle", size, backend),
                         BackendEv("return", res.ret, size, res.b) >>
            /\ UNCHANGED <<item_vars, scale_factor, rendering_notifier,
                           rendering_first_time, rendering_metrics_collector,
                           maybe_window_adapter, window_size, dropped, panicked,
                           render_calls, frame_rendered, notifications>>

\* VelloRenderer::clear_graphics_context
ClearGraphicsContext ==
    /\ Live
    /\ image_cache' = <<>>
    /\ backend' = backend_clear_graphics_context(backend)
    /\ log' = << CallEv("clear_graphics_context"),
                 Ev("return", "ok", rendering_notifier, "none", Len(scene)) >>
    /\ UNCHANGED <<scene, state_stack, next_blob, ops, last_op, hist, scale_factor,
                   rendering_notifier, rendering_first_time,
                   rendering_metrics_collector, maybe_window_adapter, window_size,
                   dropped, panicked, render_calls, frame_rendered, notifications>>

\* RendererSealed::resize
Resize ==
    \E size \in SurfaceSizes \cup { <<0, 8>> } :
        LET res == IF size[1] # 0 /\ size[2] # 0
                   THEN backend_resize(backend, size[1], size[2])
                   ELSE [b |-> backend, ret |-> "ok"]
        IN  /\ Live
            /\ backend' = res.b
            /\ log' = << BackendEv("call", "resize", size, backend),
                         BackendEv("return", res.ret, size, res.b) >>
            /\ UNCHANGED <<item_vars, scale_factor, rendering_notifier,
                           rendering_first_time, rendering_metrics_collector,
                           maybe_window_adapter, window_size, dropped, panicked,
                           render_calls, frame_rendered, notifications>>

\* the variables after a render call that ended as R
RenderCall(name, R) ==
    /\ Live
    /\ render_calls < MaxRenders
    /\ render_calls' = render_calls + 1
    /\ rendering_first_time' = R.first_time
    /\ rendering_metrics_collector' = R.collector
    /\ scene' = R.scene
    /\ image_cache' = R.image_cache
    /\ next_blob' = R.next_blob
    /\ panicked' = (R.res = "panic")
    /\ frame_rendered' = (frame_rendered \/ (R.res = "ok" /\ R.borrow = "none"
                            /\ \E i \in DOMAIN R.log : R.log[i].ev = "submit"))
    /\ log' = << CallEv(name) >> \o R.log
              \o << Ev("return", R.res, rendering_notifier, R.borrow, Len(R.scene)) >>
    /\ notifications' = notifications \o Notifications(R.log, render_calls + 1)
    /\ UNCHANGED <<state_stack, ops, last_op, hist, scale_factor, rendering_notifier,
                   maybe_window_adapter, window_size, backend, dropped>>

Render ==
    \E in \in RenderInputs :
        RenderCall("render",
                   render(Frame(rendering_first_time, rendering_metrics_collector,
                                scene, image_cache, next_blob), in))

\* the arguments of a render_transformed_with_post_callback() call, as the
\* first event of its history
ArgsEv(in) ==
    [ev |-> "args", what |-> "render_transformed_with_post_callback",
     cb |-> rendering_notifier, borrow |-> "none", scene_len |-> Len(scene),
     rotation_degrees |-> in.rotation_degrees, translation |-> in.translation,
     size |-> in.size, post_render_callback |-> in.post_render_callback]

RenderTransformed ==
    \E in \in RenderTransformedInputs :
        RenderCall("render_transformed_with_post_callback",
                   render_transformed_with_post_callback(
                       [Frame(rendering_first_time, rendering_metrics_collector,
                              scene, image_cache, next_blob)
                           EXCEPT !.log = << ArgsEv(in) >>], in))

\* Drop for VelloRenderer
Drop ==
    LET R == drop_notify(Frame(rendering_first_time, rendering_metrics_collector,
                               scene, image_cache, next_blob))
    IN  /\ Live
        /\ dropped' = TRUE
        /\ image_cache' = <<>>
        /\ backend' = backend_clear_graphics_context(backend)
        /\ log' = << CallEv("drop") >>
                  \o R.log
                  \o << Ev("clear", "graphics_context", rendering_notifier, "none",
                           Len(scene)),
                        Ev("return", "ok", rendering_notifier, "none", Len(scene)) >>
        /\ notifications' = notifications \o Notifications(R.log, render_calls + 1)
        /\ UNCHANGED <<scene, state_stack, next_blob, ops, last_op, hist, scale_factor,
                       rendering_notifier, rendering_first_time,
                       rendering_metrics_collector, maybe_window_adapter, window_size,
                       panicked, render_calls, frame_rendered>>

\* VelloRenderer::new(WgpuBackend::new()), for a window of scale factor 2
Init ==
    /\ scene = <<>>
    /\ state_stack = <<>>
    /\ scale_factor = 2
    /\ image_cache = <<>>
    /\ next_blob = 1
    /\ rendering_notifier = NoNotifier
    /\ rendering_first_time = TRUE
    /\ rendering_metrics_collector = FALSE
    /\ maybe_window_adapter = "none"
    /\ window_size = <<8, 8>>
    /\ backend = WgpuBackend_new
    /\ dropped = FALSE
    /\ panicked = FALSE
    /\ render_calls = 0
    /\ frame_rendered = FALSE
    /\ ops = 0
    /\ log = <<>>
    /\ notifications = <<>>
    /\ last_op = NoCall
    /\ hist = <<>>

Next ==
    \/ SetRenderingNotifier
    \/ SetWindowAdapter
    \/ WindowAdapterGone
    \/ SetWindowSize
    \/ SetWindowHandle
    \/ ClearGraphicsContext
    \/ Resize
    \/ Render
    \/ RenderTransformed
    \/ Drop

Spec == Init /\ [][Next]_vars

\* a VelloItemRenderer::new_with_transform on the scene of a frame that was
\* just reset, inside a render call of a renderer with an active backend
ItemInit ==
    /\ scale_factor \in {1, 2}
    /\ scene = <<>>
    /\ state_stack = new_with_transform(<<>>, scale_factor, FrameSize, <<>>, 1,
                                        AffineIdentity).state_stack
    /\ image_cache = <<>>
    /\ next_blob = 1
    /\ rendering_notifier = NoNotifier
    /\ rendering_first_time = FALSE
    /\ rendering_metrics_collector = FALSE
    /\ maybe_window_adapter = "alive"
    /\ window_size = FrameSize
    /\ backend = set_window_handle(WgpuBackend_new, FrameSize, "ok").b
    /\ dropped = FALSE
    /\ panicked = FALSE
    /\ render_calls = 1
    /\ frame_rendered = FALSE
    /\ ops = 0
    /\ log = <<>>
    /\ notifications = <<>>
    /\ last_op = NoCall
    /\ hist = << HistFrame(Last(state_stack), 0) >>

SpecItem == ItemInit /\ [][ItemNext]_vars

(***************************************************************************)
(* SpecDraw: the drawing calls of the item tree on one VelloItemRenderer,  *)
(* whose frame-root state an apply_opacity and a translate have changed    *)
(***************************************************************************)
ColorBlack == Rgba(0, 0, 0, 255)

ColorTranslucent == Rgba(0, 0, 0, 128)

BorderItem(background, border_color, border_width, border_radius) ==
    [background |-> background, border_color |-> border_color,
     border_width |-> border_width, border_radius |-> border_radius]

BorderItems ==
    { BorderItem(SolidColor(ColorWhite), SolidColor(ColorBlack), 10, 4),
      BorderItem(SolidColor(ColorWhite), SolidColor(ColorTranslucent), 10, 4),
      BorderItem(SolidColor(ColorWhite), SolidColor(ColorTranslucent), 4, 0),
      BorderItem(SolidColor(ColorWhite), SolidColor(ColorTransparent), 10, 4),
      BorderItem(SolidColor(ColorWhite), SolidColor(ColorTranslucent), 10, 60) }

\* the last size is narrower than two borders of width 10
BorderSizes == { <<80, 80>>, <<0, 8>>, <<8, 8>> }

BoxShadow(color, blur, offset_x, offset_y) ==
    [color |-> color, blur |-> blur, offset_x |-> offset_x, offset_y |-> offset_y,
     border_radius |-> 2]

BoxShadows ==
    { BoxShadow(ColorBlack, 4, 0, 0), BoxShadow(ColorBlack, 3, 2, 2),
      BoxShadow(ColorBlack, 0, 2, 2), BoxShadow(ColorBlack, 0, 0, 0),
      BoxShadow(ColorBlack, -2, 2, 0), BoxShadow(ColorTransparent, 4, 2, 2) }

\* the geometry of the item a shadow belongs to
ShadowGeometry == <<8, 4>>

\* a buffer that lies where the buffer of ImageA lay, with other pixels
ImageStale ==
    EmbeddedImage(SharedImageBuffer(1, "RGBA8Premultiplied", 2, 1,
                                    << <<1, 2, 3, 4>>, <<5, 6, 7, 8>> >>))

ImageStatic == StaticTextures(2, 1, <<9, 9, 9, 255, 8, 8, 8, 255>>)

ImageNineSlice == NineSlice(ImageA, [left |-> 1, right |-> 0, top |-> 0, bottom |-> 0])

Readback == [some |-> TRUE, width |-> 2, height |-> 1,
             rgba_data |-> <<1, 1, 1, 255, 2, 2, 2, 255>>]

NoReadback == [some |-> FALSE, width |-> 0, height |-> 0, rgba_data |-> <<>>]

\* the images that draw nothing, whatever the target
SkippedImages ==
    { Svg(2, 1, "Err"), WGPUTexture(2, 1, FALSE, Readback),
      WGPUTexture(2, 1, TRUE, NoReadback), OtherImage("BackendStorage", 2, 1),
      OtherImage("None", 0, 0), StaticTextures(0, 0, <<>>),
      NineSlice(ImageStatic, [left |-> 1, right |-> 0, top |-> 0, bottom |-> 0]) }

DrawnImages ==
    { ImageA, ImageStale, ImageStatic, ImageNineSlice,
      Svg(2, 1, "RGBA8Premultiplied"), Svg(2, 1, "RGB8"),
      WGPUTexture(2, 1, TRUE, Readback) }

EmptySizes == { <<0, 2>>, <<4, -2>> }

\* the images and target sizes of the draw_image calls
ImageDraws ==
    ((DrawnImages \cup SkippedImages) \X DrawSizes)
    \cup ({ImageA, ImageStatic} \X EmptySizes)

DirectImages == { ImageA, ImageStale, ImageStatic }

DrawBrushes == { SolidColor(ColorRed), RadialGradient(GradientStops), OtherBrush }

\* what the history remembers of a drawing call: its arguments, and the
\* stack, the scene and the image cache just before it
DrawCall(name, args) ==
    [name |-> name, ret |-> TRUE, rect |-> LogicalRectDefault, stack |-> state_stack,
     scene |-> scene, hist |-> hist, image_cache |-> image_cache, args |-> args]

\* the variables after a drawing call that left the item renderer as res
DrawStep(res, call) ==
    /\ ops < MaxDraws
    /\ ItemCall(res, call, hist)

DrawBorderRectangleOf ==
    \E item \in BorderItems, size \in BorderSizes :
        DrawStep(draw_border_rectangle(cur, item, size),
                 DrawCall("draw_border_rectangle", [item |-> item, size |-> size]))

DrawBoxShadowOf ==
    \E box_shadow \in BoxShadows :
        DrawStep(draw_box_shadow(cur, box_shadow, ShadowGeometry),
                 DrawCall("draw_box_shadow",
                          [box_shadow |-> box_shadow, geometry |-> ShadowGeometry]))

DrawImageOf ==
    \E d \in ImageDraws :
        DrawStep(draw_image(cur, d[1], d[2]),
                 DrawCall("draw_image", [image |-> d[1], size |-> d[2]]))

DrawImageDirectOf ==
    \E image \in DirectImages :
        DrawStep(draw_image_direct(cur, image),
                 DrawCall("draw_image_direct", [image |-> image]))

DrawRectangleOf ==
    \E brush \in DrawBrushes, size \in DrawSizes :
        DrawStep(draw_rectangle(cur, brush, size),
                 DrawCall("draw_rectangle", [brush |-> brush, size |-> size]))

DrawNext ==
    \/ DrawBorderRectangleOf
    \/ DrawBoxShadowOf
    \/ DrawImageOf
    \/ DrawImageDirectOf
    \/ DrawRectangleOf

\* an item renderer of a frame, after an apply_opacity and a translate of the
\* item tree on its frame-root state
DrawInit ==
    /\ scale_factor \in {1, 2}
    /\ scene = <<>>
    /\ \E o \in {FracOne, <<1, 2>>}, d \in { <<0, 0>>, <<2, 0>> } :
           state_stack =
               translate(apply_opacity(new_with_transform(<<>>, scale_factor, FrameSize,
                                                          <<>>, 1, AffineIdentity), o),
                         d).state_stack
    /\ image_cache = <<>>
    /\ next_blob = 1
    /\ rendering_notifier = NoNotifier
    /\ rendering_first_time = FALSE
    /\ rendering_metrics_collector = FALSE
    /\ maybe_window_adapter = "alive"
    /\ window_size = FrameSize
    /\ backend = set_window_handle(WgpuBackend_new, FrameSize, "ok").b
    /\ dropped = FALSE
    /\ panicked = FALSE
    /\ render_calls = 1
    /\ frame_rendered = FALSE
    /\ ops = 0
    /\ log = <<>>
    /\ notifications = <<>>
    /\ last_op = NoCall
    /\ hist = << HistFrame(Last(state_stack), 0) >>

SpecDraw == DrawInit /\ [][DrawNext]_vars

(***************************************************************************)
(* Properties of the item renderer (checked under SpecItem)                *)
(***************************************************************************)
\* the operations a call appended to the scene
Appended == SubSeq(scene, Len(last_op.scene) + 1, Len(scene))

\* the call extended the scene, leaving what was in it
SceneExtended ==
    /\ Len(scene) >= Len(last_op.scene)
    /\ SubSeq(scene, 1, Len(last_op.scene)) = last_op.scene

\* the last call was a restore_state that popped a frame
RestoredFrame == last_op.name = "restore_state" /\ Len(last_op.stack) > 1

\* whether two rectangles share no area
Disjoint(a, b) ==
    \/ a.w <= 0 \/ a.h <= 0 \/ b.w <= 0 \/ b.h <= 0
    \/ a.x + a.w <= b.x \/ b.x + b.w <= a.x
    \/ a.y + a.h <= b.y \/ b.y + b.h <= a.y

\* C1: a restore_state that pops a frame appends exactly as many pop_layer
\* operations as combine_clip calls were made on that frame since its
\* save_state, and nothing else, at every depth; the layers open after it are
\* those that were open at the matching save_state.
C1_RestorePopsCombinedClips ==
    RestoredFrame =>
        /\ SceneExtended
        /\ Len(Appended) = Last(last_op.hist).combines
        /\ \A i \in 1..Len(Appended) : Appended[i].op = "pop_layer"
        /\ OpenLayers(scene) = Last(last_op.hist).open

\* a nested frame (depth 3) with a clip layer of its own was restored
C1_Witness ==
    /\ RestoredFrame
    /\ Len(last_op.stack) = 3
    /\ Last(last_op.hist).combines >= 1

\* C2: the state stack of an item renderer always holds at least one frame;
\* restore_state with only the frame-root state on the stack changes neither
\* the stack nor the scene.
C2_RootFrameNeverPopped ==
    /\ Len(state_stack) >= 1
    /\ (last_op.name = "restore_state" /\ Len(last_op.stack) = 1) =>
           /\ state_stack = last_op.stack
           /\ scene = last_op.scene

\* restore_state was called on the root frame, which had an open clip layer
C2_Witness ==
    /\ last_op.name = "restore_state"
    /\ Len(last_op.stack) = 1
    /\ last_op.stack[1].clip_layer_count >= 1

\* C3: save_state pushes a copy of the top frame with clip_layer_count 0 and
\* leaves the frames below as they were; after the matching restore_state the
\* top frame is the frame that was on top just before that save_state.
C3_SaveRestoreFrame ==
    /\ last_op.name = "save_state" =>
           /\ Len(state_stack) = Len(last_op.stack) + 1
           /\ Front(state_stack) = last_op.stack
           /\ Last(state_stack) = [Last(last_op.stack) EXCEPT !.clip_layer_count = 0]
    /\ RestoredFrame =>
           /\ Len(state_stack) = Len(last_op.stack) - 1
           /\ state_stack = Front(last_op.stack)
           /\ Last(state_stack) = Last(last_op.hist).saved

\* a frame whose transform, clip and alpha had all changed since its
\* save_state was restored
C3_Witness ==
    /\ RestoredFrame
    /\ Last(last_op.stack).transform # Last(last_op.hist).saved.transform
    /\ Last(last_op.stack).clip # Last(last_op.hist).saved.clip
    /\ Last(last_op.stack).alpha # Last(last_op.hist).saved.alpha

\* C4: combine_clip with a rectangle that shares no area with the current
\* clip sets the clip to the empty default rectangle and returns false; with
\* an empty clip, combine_clip leaves the clip empty and returns false for any
\* rectangle, and no other call on the frame makes an empty clip non-empty.
C4_DisjointClipIsEmpty ==
    /\ last_op.name = "combine_clip" =>
           /\ Disjoint(Last(last_op.stack).clip, last_op.rect) =>
                  /\ Last(state_stack).clip = LogicalRectDefault
                  /\ ~last_op.ret
           /\ RectIsEmpty(Last(last_op.stack).clip) =>
                  /\ RectIsEmpty(Last(state_stack).clip)
                  /\ ~last_op.ret
    /\ (/\ last_op.name \notin {"new", "save_state", "restore_state"}
        /\ RectIsEmpty(Last(last_op.stack).clip)) =>
           RectIsEmpty(Last(state_stack).clip)

\* combine_clip was called with a non-empty rectangle on a clip that an
\* earlier combine_clip had made empty
C4_Witness ==
    /\ last_op.name = "combine_clip"
    /\ Last(last_op.stack).clip = LogicalRectDefault
    /\ Last(last_op.stack).clip_layer_count >= 1
    /\ ~RectIsEmpty(last_op.rect)
    /\ ~last_op.ret

\* C5: a combine_clip call appends exactly one push_layer to the scene and
\* adds one to the clip_layer_count of the top frame, whatever the radius and
\* whether the clip became empty; the frames below are unchanged.
C5_CombineClipPushesOneLayer ==
    last_op.name = "combine_clip" =>
        /\ SceneExtended
        /\ Len(Appended) = 1
        /\ Appended[1].op = "push_layer"
        /\ Len(state_stack) = Len(last_op.stack)
        /\ Last(state_stack).clip_layer_count = Last(last_op.stack).clip_layer_count + 1
        /\ Front(state_stack) = Front(last_op.stack)

\* a combine_clip with a rounded rectangle made the clip of a saved frame empty
C5_Witness ==
    /\ last_op.name = "combine_clip"
    /\ ~last_op.ret
    /\ Last(scene).shape.kind = "RoundedRect"
    /\ Len(state_stack) >= 2
    /\ Last(last_op.stack).clip_layer_count >= 1

(***************************************************************************)
(* Properties of the renderer's calls (Spec)                               *)
(***************************************************************************)
RenderCallNames == {"render", "render_transformed_with_post_callback"}

\* the state is the one a call of this name returned into
IsCall(name) == log # <<>> /\ log[1].ev = "call" /\ log[1].what = name

IsRenderCall == log # <<>> /\ log[1].ev = "call" /\ log[1].what \in RenderCallNames

\* the positions of an event in the history of the last call
LogIdx(ev, what) == {i \in DOMAIN log : log[i].ev = ev /\ log[i].what = what}

Delivered(state) == LogIdx("notify", state)

Returned == Last(log).what

\* the notifier that was registered when the last call began
NotifierAtCall == log[1].cb

\* C6: set_rendering_notifier called while a notifier is registered returns
\* AlreadySet and leaves the earlier notifier registered, so that later
\* notifications go to the first callback.
C6_SecondRegistrationKeepsFirst ==
    (IsCall("set_rendering_notifier") /\ NotifierAtCall # NoNotifier) =>
        /\ Returned = "AlreadySet"
        /\ rendering_notifier = NotifierAtCall

\* C7: RenderingSetup is delivered at most once, in the first render call
\* and before any BeforeRendering; in a frame that is drawn BeforeRendering
\* comes before the walk of the item tree, and AfterRendering after the
\* scene was submitted to the backend.
C7_NotificationOrder ==
    /\ \A i, j \in DOMAIN notifications :
           notifications[i].state = "RenderingSetup" =>
               /\ notifications[i].call = 1
               /\ notifications[j].state = "RenderingSetup" => j = i
    /\ IsRenderCall =>
           /\ \A s \in Delivered("RenderingSetup") :
                  /\ render_calls = 1
                  /\ \A n \in Delivered("BeforeRendering") \cup Delivered("AfterRendering") :
                         s < n
           /\ Cardinality(Delivered("BeforeRendering")) <= 1
           /\ Cardinality(Delivered("AfterRendering")) <= 1
           /\ \A w \in LogIdx("walk", "items") :
                  NotifierAtCall # NoNotifier =>
                      \E b \in Delivered("BeforeRendering") : b < w
           /\ \A b \in Delivered("BeforeRendering") :
                  \E w \in LogIdx("walk", "items") : b < w
           /\ \A a \in Delivered("AfterRendering") :
                  /\ \E s \in LogIdx("submit", "ok") : s < a
                  /\ \A w \in LogIdx("walk", "items") : w < a
           /\ (Returned = "ok" /\ NotifierAtCall # NoNotifier
               /\ LogIdx("submit", "ok") # {}) =>
                  Delivered("AfterRendering") # {}

\* the second render call drew a frame with both notifications, after the
\* first one had delivered RenderingSetup
C7_Witness ==
    /\ IsRenderCall
    /\ render_calls = 2
    /\ \E i \in DOMAIN notifications : notifications[i].state = "RenderingSetup"
    /\ Delivered("RenderingSetup") = {}
    /\ Delivered("BeforeRendering") # {}
    /\ LogIdx("walk", "items") # {}
    /\ LogIdx("submit", "ok") # {}
    /\ Delivered("AfterRendering") # {}

\* C8: when a renderer that has a notifier and has rendered a frame is
\* dropped, RenderingTeardown is delivered exactly once, before the graphics
\* context is cleared, with the backend active or suspended.
C8_TeardownOnDrop ==
    (IsCall("drop") /\ NotifierAtCall # NoNotifier /\ frame_rendered) =>
        /\ Cardinality(Delivered("RenderingTeardown")) = 1
        /\ \A t \in Delivered("RenderingTeardown"),
              c \in LogIdx("clear", "graphics_context") : t < c

\* C9: render() for a window with a zero width or height returns Ok, leaves
\* the scene as it was, does not call render_scene and delivers neither
\* BeforeRendering nor AfterRendering.
C9_ZeroSizeFrameSkipped ==
    (IsCall("render") /\ maybe_window_adapter = "alive"
     /\ (window_size[1] = 0 \/ window_size[2] = 0)) =>
        /\ Returned = "ok"
        /\ LogIdx("reset", "scene") = {}
        /\ Len(scene) = log[1].scene_len
        /\ \A i \in DOMAIN log : log[i].ev # "submit"
        /\ Delivered("BeforeRendering") \cup Delivered("AfterRendering") = {}

\* C10: a render call never panics, whatever the state of the backend: with
\* a notifier registered and the backend suspended it returns Ok or Err.
C10_RenderNeverPanics ==
    /\ ~panicked
    /\ IsRenderCall => Returned \in {"ok", "err"}

\* C11: resize on a suspended backend returns Ok and changes no field of the
\* backend; on an active backend it sets the surface configuration to the new
\* size and recreates the intermediate target at that size; a size with a
\* zero width or height returns Ok and leaves the backend as it was.
C11_Resize ==
    IsCall("resize") =>
        LET before == log[1].backend
            width == log[1].size[1]
            height == log[1].size[2]
        IN  /\ Returned = "ok"
            /\ (width = 0 \/ height = 0) => backend = before
            /\ ~before.surface_config.some => backend = before
            /\ (width # 0 /\ height # 0 /\ before.surface_config.some) =>
                   /\ backend.surface_config = Present(width, height)
                   /\ backend.target_texture = Present(width, height)
                   /\ backend.target_view = Present(width, height)
                   /\ backend.blitter.some
                   /\ \A f \in {"instance", "device", "queue", "surface", "vello_renderer"} :
                          backend[f] = before[f]

\* an active backend was resized to a size other than the one it had
C11_Witness ==
    /\ IsCall("resize")
    /\ log[1].backend.surface_config.some
    /\ log[1].size[1] # 0 /\ log[1].size[2] # 0
    /\ log[1].backend.target_texture # Present(log[1].size[1], log[1].size[2])
    /\ backend.target_texture = Present(log[1].size[1], log[1].size[2])

\* the fills of the scene that paint an image
ImageFills == {i \in DOMAIN scene : scene[i].op = "fill" /\ scene[i].paint.kind = "Image"}

\* the cache key of the one embedded buffer the item tree draws
KeyA == ImageA.buffer.ptr

\* the render call that just returned walked the item tree
FrameWalked == IsRenderCall /\ LogIdx("walk", "items") # {}

\* C12: all draws of one embedded buffer use the cached object: within a
\* frame every draw uses the entry of the cache; an entry that the call found
\* (no clear_graphics_context since it was made) is used as it is, without a
\* new conversion; after clear_graphics_context the draw makes a new object.
C12_CachedImageObject ==
    FrameWalked =>
        /\ \A i \in ImageFills :
               /\ KeyA \in DOMAIN image_cache
               /\ scene[i].paint.image.blob = image_cache[KeyA]
        /\ KeyA \in DOMAIN log[1].image_cache =>
               /\ KeyA \in DOMAIN image_cache
               /\ image_cache[KeyA] = log[1].image_cache[KeyA]
               /\ next_blob = log[1].next_blob
        /\ (KeyA \notin DOMAIN log[1].image_cache /\ ImageFills # {}) =>
               /\ image_cache[KeyA].id >= log[1].next_blob
               /\ next_blob = log[1].next_blob + 1

\* the second frame drew the buffer twice with the object the first frame
\* had put in the cache
C12_Witness ==
    /\ FrameWalked
    /\ render_calls = 2
    /\ KeyA \in DOMAIN log[1].image_cache
    /\ Cardinality(ImageFills) = 2
    /\ \A i \in ImageFills : scene[i].paint.image.blob = log[1].image_cache[KeyA]

\* the step is a clear_graphics_context call, or the drop that makes one
ClearsGraphicsContext ==
    /\ log' # <<>>
    /\ \/ log'[1].what = "clear_graphics_context"
       \/ /\ log'[1].what = "drop"
          /\ \E i \in DOMAIN log' : log'[i].ev = "clear"

\* C13: the image cache has one entry for each source identity; no call
\* removes or replaces an entry (a draw, a render call or a resize only adds
\* entries), except clear_graphics_context, which removes all of them.
C13_CacheEntriesKept ==
    [][ \/ \A k \in DOMAIN image_cache :
              k \in DOMAIN image_cache' /\ image_cache'[k] = image_cache[k]
        \/ DOMAIN image_cache' = {} /\ ClearsGraphicsContext ]_vars

\* clear_graphics_context emptied a cache that a frame had filled
C13_Witness ==
    /\ IsCall("clear_graphics_context")
    /\ KeyA \in DOMAIN log[1].image_cache
    /\ DOMAIN image_cache = {}
    /\ render_calls >= 1

BackendFields ==
    {"instance", "device", "queue", "surface", "surface_config", "vello_renderer",
     "target_texture", "target_view", "blitter"}

AllPresent(b) == \A f \in BackendFields : b[f].some

AllAbsent(b) == \A f \in BackendFields : ~b[f].some

\* C14: a new backend has no GPU resource; the nine resources of the backend
\* are always all present or all absent; a set_window_handle that fails
\* leaves the backend as it was, so a suspended backend stays suspended; and
\* clear_graphics_context drops every resource and the image cache.
C14_BackendAllOrNothing ==
    /\ AllAbsent(WgpuBackend_new)
    /\ AllPresent(backend) \/ AllAbsent(backend)
    /\ IsCall("set_window_handle") =>
           /\ Returned = "err" => backend = log[1].backend
           /\ Returned = "ok" => AllPresent(backend)
    /\ IsCall("clear_graphics_context") =>
           /\ AllAbsent(backend)
           /\ DOMAIN image_cache = {}

\* a backend that had rendered a frame and was suspended failed to resume
C14_Witness ==
    /\ IsCall("set_window_handle")
    /\ Returned = "err"
    /\ frame_rendered
    /\ AllAbsent(log[1].backend)
    /\ AllAbsent(backend)

\* the history l is the one of a call of this name
CallIs(l, name) == l # <<>> /\ l[1].ev = "call" /\ l[1].what = name

Ret(l) == l[Len(l)].what

\* the last call was a resume (set_window_handle) that succeeded on a backend
\* that a suspend had emptied after a frame
Resumed ==
    /\ CallIs(log, "set_window_handle")
    /\ Ret(log) = "ok"
    /\ AllAbsent(log[1].backend)
    /\ frame_rendered

\* the step is a render() with a window, to which the GPU answers no error
RenderRuns ==
    /\ CallIs(log', "render")
    /\ maybe_window_adapter = "alive"
    /\ \A i \in DOMAIN log' : ~(log'[i].ev = "submit" /\ log'[i].what = "gpu_err")

\* the step drew the embedded buffer
DrawsImage ==
    /\ \E i \in DOMAIN log' : log'[i].ev = "walk"
    /\ \E i \in DOMAIN scene' : scene'[i].op = "fill" /\ scene'[i].paint.kind = "Image"

SubmitFailed(l) ==
    /\ l # <<>> /\ l[1].ev = "call" /\ l[1].what \in RenderCallNames
    /\ \E i \in DOMAIN l : l[i].ev = "submit" /\ l[i].what # "ok"

\* C16: an Err of render_scene (the GPU's, or the one of a suspended backend)
\* is the Err of the render call, which then delivers no AfterRendering; and
\* the render() that follows, with the backend active and the GPU answering,
\* runs a complete frame.
C16_RenderSceneErrorPropagates ==
    [][ /\ SubmitFailed(log') =>
               /\ Ret(log') = "err"
               /\ \A i \in DOMAIN log' :
                      ~(log'[i].ev = "notify" /\ log'[i].what = "AfterRendering")
               /\ log'[Len(log')].borrow = "none"
               /\ ~panicked'
        /\ (SubmitFailed(log) /\ RenderRuns /\ AllPresent(backend)
            /\ window_size[1] # 0 /\ window_size[2] # 0) =>
               /\ Ret(log') = "ok"
               /\ \E i \in DOMAIN log' : log'[i].ev = "submit" /\ log'[i].what = "ok"
      ]_vars

\* the GPU failed a frame of a renderer with a notifier, after BeforeRendering
C16_Witness ==
    /\ SubmitFailed(log)
    /\ LogIdx("submit", "gpu_err") # {}
    /\ NotifierAtCall # NoNotifier
    /\ Delivered("BeforeRendering") # {}
    /\ Returned = "err"

\* C17: render() on a renderer that has no window adapter, never set or no
\* longer alive, returns Err, leaves the scene as it was and does not call
\* render_scene.
C17_RenderWithoutWindow ==
    (IsCall("render") /\ maybe_window_adapter \in {"none", "dead"}) =>
        /\ Returned = "err"
        /\ LogIdx("reset", "scene") = {}
        /\ Len(scene) = log[1].scene_len
        /\ \A i \in DOMAIN log : log[i].ev # "submit"

\* C18: whenever the notifier is called the renderer holds no borrow of the
\* scene; and after BeforeRendering the scene is borrowed again without a
\* reset, so that what was appended before the callback is still in it.
C18_SceneReleasedForNotifier ==
    (log # <<>> /\ log[1].ev = "call") =>
        /\ \A i \in DOMAIN log : log[i].ev = "notify" => log[i].borrow = "none"
        /\ \A b \in Delivered("BeforeRendering") :
               /\ \A i \in LogIdx("reset", "scene") : i < b
               /\ \A w \in LogIdx("walk", "items") :
                      /\ log[w].borrow = "mut"
                      /\ log[w].scene_len >= log[b].scene_len
                      /\ Len(scene) >= log[b].scene_len
                      /\ log[b].scene_len = 1 =>
                             /\ scene[1].op = "fill"
                             /\ scene[1].paint = PaintSolid(ColorWhite)

\* BeforeRendering was delivered after the clear of a solid window background
\* and the walk then appended to the scene
C18_Witness ==
    /\ IsRenderCall
    /\ \E b \in Delivered("BeforeRendering") : log[b].scene_len = 1
    /\ LogIdx("walk", "items") # {}
    /\ Delivered("AfterRendering") # {}
    /\ Len(scene) > 1

(***************************************************************************)
(* Properties of the item renderer's drawing calls (SpecItem)              *)
(***************************************************************************)
\* an alpha value, as a fraction, lies in [0, 1]
AlphaInUnit(f) == f[2] > 0 /\ f[1] >= 0 /\ f[1] <= f[2]

\* the alpha of every operation of the scene: the alpha of a layer, the
\* alpha of an image sampler, the alpha channel of a solid colour
DrawAlphasInUnit ==
    \A i \in DOMAIN scene :
        /\ scene[i].op = "push_layer" => AlphaInUnit(scene[i].alpha)
        /\ (scene[i].op = "fill" /\ scene[i].paint.kind = "Image") =>
               AlphaInUnit(scene[i].paint.alpha)
        /\ (scene[i].op = "fill" /\ scene[i].paint.kind = "Solid") =>
               scene[i].paint.color[4] \in 0..255

\* C19: apply_opacity multiplies the alpha of the top frame by its factor, so
\* that two calls multiply it by the product of their factors; and whatever
\* the factors were, every operation of the scene has an alpha in [0, 1].
C19_OpacityProductClamped ==
    /\ last_op.name = "apply_opacity" =>
           /\ Last(state_stack).alpha = FracMul(Last(last_op.stack).alpha, last_op.opacity)
           /\ Front(state_stack) = Front(last_op.stack)
    /\ DrawAlphasInUnit

\* an 8-bit alpha channel multiplied by the alpha of a frame
MultipliedAlpha(a8, alpha) == F32AsU8(FracMul(<<a8, 1>>, alpha))

\* C20: draw_rectangle fills with its brush multiplied by the alpha of the top
\* frame, whatever the kind of the brush: the colour of a solid brush and the
\* colour of every stop of a gradient carry the multiplied alpha.
C20_RectangleBrushAlpha ==
    last_op.name = "draw_rectangle" =>
        /\ SceneExtended
        /\ Len(Appended) = 1
        /\ Appended[1].op = "fill"
        /\ LET paint == Appended[1].paint
               brush == last_op.brush
               alpha == Last(last_op.stack).alpha
           IN  /\ brush.kind = "SolidColor" =>
                      /\ paint.kind = "Solid"
                      /\ paint.color[4] = MultipliedAlpha(brush.color[4], alpha)
               /\ brush.kind \in {"LinearGradient", "RadialGradient"} =>
                      /\ paint.kind = "Gradient"
                      /\ Len(paint.stops) = Len(brush.stops)
                      /\ \A i \in DOMAIN paint.stops :
                             paint.stops[i].color[4]
                                 = MultipliedAlpha(brush.stops[i].color[4], alpha)

\* C27: draw_rectangle of size (w, h) with a solid brush appends one fill and
\* nothing else: the rectangle (0,0)-(w*scale_factor, h*scale_factor) under
\* the current transform, in the brush's colour with the frame's alpha
\* multiplied in (the colour itself at alpha 1); the state stack is unchanged.
C27_SolidRectangleFill ==
    (last_op.name = "draw_rectangle" /\ last_op.brush.kind = "SolidColor") =>
        /\ SceneExtended
        /\ Len(Appended) = 1
        /\ Appended[1].op = "fill"
        /\ Appended[1].shape =
               [kind |-> "Rect", radius |-> 0,
                rect |-> [x0 |-> 0, y0 |-> 0,
                          x1 |-> last_op.size[1] * scale_factor,
                          y1 |-> last_op.size[2] * scale_factor]]
        /\ Appended[1].transform = Last(last_op.stack).transform
        /\ Appended[1].paint.kind = "Solid"
        /\ \A i \in 1..3 : Appended[1].paint.color[i] = last_op.brush.color[i]
        /\ Appended[1].paint.color[4]
               = MultipliedAlpha(last_op.brush.color[4], Last(last_op.stack).alpha)
        /\ Last(last_op.stack).alpha = FracOne =>
               Appended[1].paint.color = last_op.brush.color
        /\ state_stack = last_op.stack

\* a solid rectangle was drawn at scale factor 2 on a saved frame whose
\* transform had been changed, with the scene not empty before
C27_Witness ==
    /\ last_op.name = "draw_rectangle"
    /\ last_op.brush.kind = "SolidColor"
    /\ scale_factor = 2
    /\ Len(state_stack) = 2
    /\ Last(state_stack).transform # AffineIdentity
    /\ last_op.scene # <<>>
    /\ Last(scene).shape.rect = KRect(0, 0, 8, 4)

\* the sum of clip_layer_count over the frames of a stack
RECURSIVE ClipLayers(_)
ClipLayers(stack) ==
    IF stack = <<>> THEN 0
    ELSE ClipLayers(Front(stack)) + Last(stack).clip_layer_count

\* C29: between the calls of a walk, the layers the scene has pushed and not
\* popped are as many as the sum of clip_layer_count over the frames of the
\* state stack; the layers that combine_clip pushed on the frame-root state
\* are never popped, so they are open in the scene the walk leaves.
C29_OpenLayersAreCounted ==
    /\ OpenLayers(scene) = ClipLayers(state_stack)
    /\ state_stack[1].clip_layer_count = hist[1].combines
    /\ OpenLayers(scene) >= hist[1].combines

\* at the end of a walk the stack is back at the frame-root state, on which
\* combine_clip was called, after a saved frame with a clip was restored
C29_Witness ==
    /\ ops = MaxOps
    /\ last_op.name = "restore_state"
    /\ Last(last_op.stack).clip_layer_count = 1
    /\ Len(state_stack) = 1
    /\ state_stack[1].clip_layer_count = 1
    /\ OpenLayers(scene) = 1

(***************************************************************************)
(* Properties of render_transformed_with_post_callback (Spec)              *)
(***************************************************************************)
\* the positions of the events of one kind in the history of the last call
EvIdx(ev) == {i \in DOMAIN log : log[i].ev = ev}

\* the call that just returned was render_transformed_with_post_callback and
\* it walked the item tree
TransformedFrameWalked ==
    IsCall("render_transformed_with_post_callback") /\ EvIdx("walk") # {}

\* C26: the frame-root transform of render_transformed_with_post_callback is
\* the rotation followed by the translation, whatever the arguments (the
\* rectangle of the item tree is drawn under it); a post-render callback is
\* called once in a frame that is drawn, after the walk, before the metrics
\* and before the scene is submitted.
C26_TransformedFrame ==
    TransformedFrameWalked =>
        /\ scene[2].transform =
               AffineMul(AffineTranslate(log[2].translation[1], log[2].translation[2]),
                         AffineRotate(log[2].rotation_degrees))
        /\ log[2].post_render_callback =>
               /\ Cardinality(EvIdx("post_callback")) = 1
               /\ \A p \in EvIdx("post_callback") :
                      /\ \A w \in EvIdx("walk") : w < p
                      /\ \A m \in EvIdx("metrics") : p < m
                      /\ \A u \in EvIdx("submit") : p < u
        /\ ~log[2].post_render_callback => EvIdx("post_callback") = {}

(***************************************************************************)
(* Properties of the drawing calls (SpecDraw)                              *)
(***************************************************************************)
IsDraw(name) == last_op.name = name

\* the frame the call drew on
Top == Last(last_op.stack)

\* the target of the call in physical pixels
TargetRect == KRect(0, 0, last_op.args.size[1] * scale_factor,
                    last_op.args.size[2] * scale_factor)

NonPositive(size) == size[1] <= 0 \/ size[2] <= 0

Within(a, b) == a.x0 >= b.x0 /\ a.y0 >= b.y0 /\ a.x1 <= b.x1 /\ a.y1 <= b.y1

\* the image fills among the operations the call appended
AppendedImages ==
    {i \in DOMAIN Appended : Appended[i].op = "fill" /\ Appended[i].paint.kind = "Image"}

\* C21: a draw_image that appends to the scene appends brackets of a
\* push_layer, the fill of the image and a pop_layer, nothing else; each layer
\* clips, under the current transform, to the target rectangle (one bracket)
\* or to a part of it (the slices of a nine-slice image).
C21_ImageDrawsAreBracketed ==
    (IsDraw("draw_image") /\ Appended # <<>>) =>
        /\ SceneExtended
        /\ Len(Appended) % 3 = 0
        /\ \A k \in 0..((Len(Appended) \div 3) - 1) :
               /\ Appended[3 * k + 1].op = "push_layer"
               /\ Appended[3 * k + 2].op = "fill"
               /\ Appended[3 * k + 2].paint.kind = "Image"
               /\ Appended[3 * k + 3].op = "pop_layer"
               /\ Appended[3 * k + 1].transform = Top.transform
               /\ Within(Appended[3 * k + 1].shape.rect, TargetRect)
        /\ Len(Appended) = 3 => Appended[1].shape.rect = TargetRect

\* the call was given an input that is to be skipped
Degenerate ==
    \/ /\ IsDraw("draw_image")
       /\ \/ NonPositive(last_op.args.size)
          \/ last_op.args.image.width = 0
          \/ last_op.args.image.height = 0
          \/ last_op.args.image.kind \in {"None", "BackendStorage"}
          \/ /\ last_op.args.image.kind = "WGPUTexture"
             /\ (~last_op.args.image.reader \/ ~last_op.args.image.readback.some)
    \/ /\ IsDraw("draw_border_rectangle")
       /\ NonPositive(last_op.args.size)

\* C22: a drawing call with a degenerate or unsupported input changes neither
\* the scene nor the state stack nor the image cache (the calls return
\* nothing, so no error is reported); a brush of an unknown variant is filled
\* as the transparent solid colour.
C22_DegenerateInputsSkipped ==
    /\ Degenerate =>
           /\ scene = last_op.scene
           /\ state_stack = last_op.stack
           /\ image_cache = last_op.image_cache
    /\ (IsDraw("draw_rectangle") /\ last_op.args.brush.kind = "Other") =>
           /\ Len(Appended) = 1
           /\ Appended[1].op = "fill"
           /\ Appended[1].paint.kind = "Solid"
           /\ Appended[1].paint.color = <<0, 0, 0, 0>>

\* a GPU texture whose reader returned no data was skipped, with an image in
\* the scene and in the cache
C22_Witness ==
    /\ IsDraw("draw_image")
    /\ last_op.args.image.kind = "WGPUTexture"
    /\ last_op.args.image.reader
    /\ ~last_op.args.image.readback.some
    /\ ~NonPositive(last_op.args.size)
    /\ ImageFills # {}
    /\ DOMAIN image_cache # {}

\* the border of the last draw_border_rectangle, which drew, has this alpha
\* as a solid colour
BorderAlpha == last_op.args.item.border_color.color[4]

BorderDrawn ==
    /\ IsDraw("draw_border_rectangle")
    /\ ~NonPositive(last_op.args.size)
    /\ last_op.args.item.border_color.kind = "SolidColor"

\* the physical border width of the last draw_border_rectangle
BorderWidth == last_op.args.item.border_width * scale_factor

\* twice the rectangle that bounds a stroke: its path widened by half its
\* width on every side
StrokeOuter2(st) ==
    KRect(2 * st.shape.rect.x0 - st.width, 2 * st.shape.rect.y0 - st.width,
          2 * st.shape.rect.x1 + st.width, 2 * st.shape.rect.y1 + st.width)

\* twice the rectangle that a stroke leaves free inside: its path narrowed by
\* half its width on every side
StrokeInner2(st) ==
    KRect(2 * st.shape.rect.x0 + st.width, 2 * st.shape.rect.y0 + st.width,
          2 * st.shape.rect.x1 - st.width, 2 * st.shape.rect.y1 - st.width)

Twice(kr) == KRect(2 * kr.x0, 2 * kr.y0, 2 * kr.x1, 2 * kr.y1)

\* C23: with a fully opaque border of width w, draw_border_rectangle fills
\* the background moved inside by w on every side and draws the border as an
\* operation of its own that covers the ring between the edge of the
\* rectangle and the background.
C23_OpaqueBorderRing ==
    (BorderDrawn /\ BorderAlpha = 255) =>
        /\ SceneExtended
        /\ Len(Appended) = 2
        /\ Appended[1].op = "fill"
        /\ Appended[1].shape.rect =
               KRect(BorderWidth, BorderWidth,
                     TargetRect.x1 - BorderWidth, TargetRect.y1 - BorderWidth)
        /\ Appended[2].op = "stroke"
        /\ StrokeOuter2(Appended[2]) = Twice(TargetRect)
        /\ StrokeInner2(Appended[2]) = Twice(Appended[1].shape.rect)

\* C24: with a translucent border, draw_border_rectangle fills the background
\* over the whole rectangle and strokes the border on a path moved inside,
\* so that the stroke lies over the background everywhere and none of it
\* reaches over the edge of the background.
C24_TranslucentBorderInset ==
    (BorderDrawn /\ BorderAlpha \notin {0, 255}) =>
        /\ SceneExtended
        /\ Len(Appended) = 2
        /\ Appended[1].op = "fill"
        /\ Appended[1].shape.rect = TargetRect
        /\ Appended[2].op = "stroke"
        /\ Appended[2].width = BorderWidth
        /\ Appended[2].transform = Appended[1].transform
        /\ Appended[2].shape.rect.x0 > TargetRect.x0
        /\ Appended[2].shape.rect.y0 > TargetRect.y0
        /\ Appended[2].shape.rect.x1 < TargetRect.x1
        /\ Appended[2].shape.rect.y1 < TargetRect.y1
        /\ Within(StrokeOuter2(Appended[2]), Twice(Appended[1].shape.rect))

\* C25: every image in the scene is RGBA8 with four bytes for each of its
\* width * height pixels, whatever the format of its source and the call
\* that drew it; an image drawn from a buffer is tagged premultiplied exactly
\* when the buffer is.
C25_ImagesAreRgba8 ==
    /\ \A i \in ImageFills :
           /\ scene[i].paint.image.format = "Rgba8"
           /\ Len(scene[i].paint.image.blob.bytes)
                  = 4 * scene[i].paint.image.width * scene[i].paint.image.height
    /\ ((IsDraw("draw_image") \/ IsDraw("draw_image_direct"))
        /\ last_op.args.image.kind \in {"EmbeddedImage", "NineSlice"}) =>
           \A i \in AppendedImages :
               (Appended[i].paint.image.alpha_type = "AlphaPremultiplied")
                   <=> (last_op.args.image.buffer.format = "RGBA8Premultiplied")

\* C28: draw_box_shadow appends nothing when the colour is fully transparent
\* or when the blur and both offsets are 0; otherwise it appends one
\* operation: the blurred rounded rectangle of standard deviation blur / 2 in
\* physical units when that is above 0, else the fill of a rounded rectangle.
C28_BoxShadow ==
    IsDraw("draw_box_shadow") =>
        LET b == last_op.args.box_shadow
            invisible == \/ b.color[4] = 0
                         \/ (b.blur = 0 /\ b.offset_x = 0 /\ b.offset_y = 0)
        IN  /\ SceneExtended
            /\ state_stack = last_op.stack
            /\ invisible => Appended = <<>>
            /\ ~invisible =>
                   /\ Len(Appended) = 1
                   /\ Appended[1].shape.kind = "RoundedRect"
                   /\ IF b.blur * scale_factor > 0
                      THEN /\ Appended[1].op = "blurred_rounded_rect"
                           /\ 2 * Appended[1].std_dev[1]
                                  = b.blur * scale_factor * Appended[1].std_dev[2]
                      ELSE /\ Appended[1].op = "fill"
                           /\ Appended[1].paint.kind = "Solid"

\* a shadow of blur 3 was drawn at scale factor 1 as the blurred rounded
\* rectangle of standard deviation 3/2, after a shadow without blur was
\* drawn as a fill
C28_Witness ==
    /\ IsDraw("draw_box_shadow")
    /\ last_op.args.box_shadow.blur = 3
    /\ scale_factor = 1
    /\ Len(Appended) = 1
    /\ Appended[1].op = "blurred_rounded_rect"
    /\ Appended[1].std_dev = <<3, 2>>
    /\ last_op.scene # <<>>
    /\ Last(last_op.scene).op = "fill"
    /\ Last(last_op.scene).shape.kind = "RoundedRect"

\* C30: the image that a draw of an embedded buffer places in the scene holds
\* the RGBA8 bytes of the pixels of that buffer, also when a buffer with
\* other pixels lay at the same address in an earlier draw.
C30_EmbeddedDrawUsesItsBuffer ==
    (IsDraw("draw_image") /\ last_op.args.image.kind = "EmbeddedImage") =>
        \A i \in AppendedImages :
            Appended[i].paint.image.blob.bytes
                = rgba_bytes(last_op.args.image.buffer.format,
                             last_op.args.image.buffer.pixels)

\* the opacity an appended image fill is composited with: the alpha of its
\* sampler times the alpha of the layer the call opened around it
EffectiveOpacity(i) ==
    IF i > 1 /\ Appended[i - 1].op = "push_layer"
    THEN FracMul(Appended[i - 1].alpha, Appended[i].paint.alpha)
    ELSE Appended[i].paint.alpha

\* C31: an embedded raster image or a slice of a nine-slice image drawn on a
\* frame of alpha a is composited with the opacity a: the alpha of the frame
\* is applied once for each image fill of the draw.
C31_StateAlphaAppliedOnce ==
    (IsDraw("draw_image")
     /\ last_op.args.image.kind \in {"EmbeddedImage", "NineSlice"}) =>
        \A i \in AppendedImages : EffectiveOpacity(i) = Top.alpha

(***************************************************************************)
(* Properties of the renderer, continued (Spec)                            *)
(***************************************************************************)
\* C32: every RenderingTeardown notification made to a notifier comes after a
\* RenderingSetup notification made to the same notifier, also when the
\* notifier is registered after the first render call.
C32_TeardownAfterSetup ==
    \A i \in DOMAIN notifications :
        notifications[i].state = "RenderingTeardown" =>
            \E j \in 1..(i - 1) :
                /\ notifications[j].state = "RenderingSetup"
                /\ notifications[j].cb = notifications[i].cb

\* the physical size of the frame of the render call that just returned
FrameExtent == IF IsCall("render") THEN window_size ELSE log[2].size

\* the clear fill of a solid window background over the frame
ClearFill ==
    Fill(AffineIdentity, PaintSolid(ColorWhite),
         ShapeRect(KRect(0, 0, FrameExtent[1], FrameExtent[2])))

\* the fill of a draw_rectangle with the gradient of the window background
GradientFill(op) ==
    /\ op.op = "fill"
    /\ op.paint.kind = "Gradient"
    /\ op.shape.kind = "Rect"

\* the operations of the scene that draw a window background
BackgroundOps == {i \in DOMAIN scene : scene[i] = ClearFill \/ GradientFill(scene[i])}

Extent(kr) == <<kr.x1 - kr.x0, kr.y1 - kr.y0>>

EarlierFillsOfTexture ==
    {j \in DOMAIN last_op.scene :
        /\ last_op.scene[j].op = "fill"
        /\ last_op.scene[j].paint.kind = "Image"
        /\ last_op.scene[j].paint.image.blob.bytes = last_op.args.image.data}

\* C35: a draw of a static texture that was drawn before (the cache was not
\* cleared since) paints the pixel blob of the earlier draw, as a draw of an
\* embedded buffer does; a draw of a vector image or of a GPU texture leaves
\* the image cache as it was.
C35_StaticTexturesCached ==
    IsDraw("draw_image") =>
        /\ last_op.args.image.kind = "StaticTextures" =>
               \A i \in AppendedImages : \A j \in EarlierFillsOfTexture :
                   Appended[i].paint.image.blob.id
                       = last_op.scene[j].paint.image.blob.id
        /\ last_op.args.image.kind \in {"Svg", "WGPUTexture"} =>
               image_cache = last_op.image_cache

\* the rectangle a transform without rotation maps a rectangle to
ApplyToRect(t, kr) ==
    RectAbs(KRect(t[1] * kr.x0 + t[5], t[4] * kr.y0 + t[6],
                  t[1] * kr.x1 + t[5], t[4] * kr.y1 + t[6]))

\* the slices of the nine-slice image the call drew
SlicesOfCall ==
    fit9slice(<<last_op.args.image.inner.width, last_op.args.image.inner.height>>,
              last_op.args.image.borders,
              <<last_op.args.size[1] * scale_factor, last_op.args.size[2] * scale_factor>>,
              scale_factor)

\* those of them whose source region is not empty, in the order of the loop
DrawnSlices == SelectSeq(SlicesOfCall, LAMBDA f : ~RectIsEmpty(f.clip_rect))

\* the target rectangle of a slice in the coordinates of the frame
SliceTarget(f) ==
    ApplyToRect(Top.transform,
                KRect(f.offset[1], f.offset[2],
                      f.offset[1] + f.size[1], f.offset[2] + f.size[2]))

\* C36: a nine-slice draw appends, for each slice whose source region is not
\* empty and in their order, one push_layer, fill, pop_layer: the layer clips
\* to the target rectangle of the slice and the fill paints the one cached
\* blob of the inner buffer; an empty slice appends nothing, and so does a
\* nine-slice image whose inner image is not an embedded buffer.
C36_NineSliceTriples ==
    (IsDraw("draw_image") /\ last_op.args.image.kind = "NineSlice"
     /\ ~NonPositive(last_op.args.size)) =>
        IF last_op.args.image.inner.kind # "EmbeddedImage"
        THEN scene = last_op.scene
        ELSE /\ SceneExtended
             /\ Len(Appended) = 3 * Len(DrawnSlices)
             /\ \A k \in DOMAIN DrawnSlices :
                    /\ Appended[3 * k - 2].op = "push_layer"
                    /\ ApplyToRect(Appended[3 * k - 2].transform,
                                   Appended[3 * k - 2].shape.rect)
                           = SliceTarget(DrawnSlices[k])
                    /\ Appended[3 * k - 1].op = "fill"
                    /\ Appended[3 * k - 1].paint.kind = "Image"
                    /\ Appended[3 * k - 1].paint.image.blob
                           = image_cache[last_op.args.image.inner.buffer.ptr]
                    /\ Appended[3 * k].op = "pop_layer"

(***************************************************************************)
(* Properties of the item renderer, continued (SpecItem)                   *)
(***************************************************************************)
\* the call left the alpha and the layer count of the top frame and all the
\* frames below it as they were, and the scene too
OnlyTopGeometryChanged ==
    /\ scene = last_op.scene
    /\ Len(state_stack) = Len(last_op.stack)
    /\ Front(state_stack) = Front(last_op.stack)
    /\ Last(state_stack).alpha = Last(last_op.stack).alpha
    /\ Last(state_stack).clip_layer_count = Last(last_op.stack).clip_layer_count

\* C37: translate(d) moves the clip of the top frame by -d and keeps its size
\* (so that translate(-d) after it restores the clip); scale(x, y) leaves a
\* clip that describes the region the clip described before: its origin and
\* its extents are those of the old clip divided by x and y; both calls leave
\* the alpha, the layer count and the frames below as they were.
C37_ClipFollowsTransform ==
    LET old == Last(last_op.stack).clip
        new == Last(state_stack).clip
    IN  /\ last_op.name = "translate" =>
               /\ OnlyTopGeometryChanged
               /\ new = LogicalRect(old.x - last_op.args.distance[1],
                                    old.y - last_op.args.distance[2], old.w, old.h)
        /\ last_op.name = "scale" =>
               /\ OnlyTopGeometryChanged
               /\ new.w * last_op.args.x_factor = old.w
               /\ new.h * last_op.args.y_factor = old.h
               /\ new.x * last_op.args.x_factor = old.x
               /\ new.y * last_op.args.y_factor = old.y

\* C38: rotate(0) leaves the clip of the top frame as it was, origin and
\* size, whatever the clip is, an empty clip included.
C38_RotateZeroKeepsClip ==
    (last_op.name = "rotate" /\ last_op.args.angle_in_degrees = 0) =>
        /\ Len(state_stack) = Len(last_op.stack)
        /\ Last(state_stack).clip = Last(last_op.stack).clip

\* rotate(0) was called on a saved frame whose clip a combine_clip had made
\* empty, below which a frame has a clip away from the origin
C38_Witness ==
    /\ last_op.name = "rotate"
    /\ last_op.args.angle_in_degrees = 0
    /\ Len(last_op.stack) > 1
    /\ RectIsEmpty(Last(last_op.stack).clip)
    /\ last_op.stack[1].clip.x # 0

(***************************************************************************)
(* Properties of the backend, continued (Spec)                             *)
(***************************************************************************)
\* C39: while the backend is active (it has a device or a surface
\* configuration) the intermediate texture and its view have the width and
\* the height of the surface configuration, whatever calls were made.
C39_TargetMatchesSurface ==
    (backend.device.some \/ backend.surface_config.some) =>
        /\ backend.surface_config.some
        /\ backend.target_texture
               = Present(backend.surface_config.width, backend.surface_config.height)
        /\ backend.target_view = backend.target_texture

\* set_window_handle succeeded on a backend that was active with another
\* size, after a frame had been rendered
C39_Witness ==
    /\ IsCall("set_window_handle")
    /\ Returned = "ok"
    /\ log[1].backend.surface_config.some
    /\ log[1].backend.surface_config # backend.surface_config
    /\ backend.target_texture = Present(log[1].size[1], log[1].size[2])
    /\ frame_rendered
====
